---- MODULE Spec2Model ----
(***************************************************************************)
(* Verification model of ovechbot_go: the ingestor's goal detection and    *)
(* de-duplication, the predictor's reminder and prediction pipeline, the   *)
(* evaluator's post-game report and the announcer's stream consumers, all  *)
(* of which meet in one Redis instance.                                    *)
(*                                                                         *)
(* Each service is a specification of its own over the shared variables:   *)
(*   Spec           the ingestor(s), the live score feed and Redis         *)
(***************************************************************************)
EXTENDS Integers, Sequences, FiniteSets, TLC

(***************************************************************************)
(* Bounds of the model.                                                    *)
(***************************************************************************)
MaxGames == 1
MaxSeasonGoals == 2
MaxOtherGoals == 1
CareerStart == 3

(***************************************************************************)
(* Program constants (ingestor).                                           *)
(***************************************************************************)
OvechkinPlayerID == 8471214
OtherPlayerID == 8470000
LiveGameStates == {"LIVE", "CRIT"}
Ingestors == {"i1", "i2"}
GameIds == 1..MaxGames

VARIABLES
  \* ---- NHL API as the ingestor sees it
  feedGame,      \* id of the Capitals game listed by score/now, 0 when none
  feedState,     \* its gameState
  feedGoals,     \* its goals, in feed order: [playerID, goalsToDate]
  seasonGoals,   \* the subject's goals this season (goals-to-date of his last goal)
  otherGoals,    \* goals by other players put in the feed so far
  apiCareer,     \* career total the landing endpoint reports (may lag)
  \* ---- Redis
  seenGoals,     \* ovechkin:seen_goals:{gameID}: a set of goals-to-date per game
  seenTTL,       \* whether the key of a game carries a TTL
  goalsStream,   \* ovechkin:goals
  \* ---- ingestor processes
  active,                 \* the ingestor processes deployed
  ipc,                    \* "stopped" | "idle" | "mark" | "emit"
  lastKnownCareerTotal,
  caps,                   \* the game of the tick in progress
  todo,                   \* goals of the tick's loop not yet visited
  evt,                    \* the GoalEvent about to be emitted
  \* ---- history (not program state)
  markReturn,    \* per (game, goals-to-date): what MarkGoalSeen has returned so far
  reconciled,    \* per process: its latest tick's reconciliation, NoRec when the
                 \* latest tick made none
  lastEmitted    \* per process: Goals of the latest event it appended, 0 if none

feedVars == <<feedGame, feedState, feedGoals, seasonGoals, otherGoals, apiCareer>>
redisGoalVars == <<seenGoals, seenTTL, goalsStream>>
ingVars == <<active, ipc, lastKnownCareerTotal, caps, todo, evt>>
ingestorVars == <<feedVars, redisGoalVars, ingVars, markReturn, reconciled, lastEmitted>>

Pairs == GameIds \X (1..MaxSeasonGoals)

(***************************************************************************)
(* The score feed and the landing endpoint.                                *)
(***************************************************************************)
RealCareer == CareerStart + seasonGoals

\* The goals the subject scores in a run: MaxSeasonGoals with one ingestor
\* deployed, one fewer with two.
GoalsBound == MaxSeasonGoals + 1 - Cardinality(active)

\* A new Capitals game is listed by score/now, not yet started.
GameListed ==
  /\ feedGame < MaxGames
  /\ feedGame = 0 \/ feedState = "OFF"
  /\ feedGame' = feedGame + 1
  /\ feedState' = "FUT"
  /\ feedGoals' = <<>>
  /\ UNCHANGED <<seasonGoals, otherGoals, apiCareer>>
  /\ UNCHANGED <<redisGoalVars, ingVars, markReturn, reconciled, lastEmitted>>

\* The listed game moves through its lifecycle.
GameAdvances ==
  /\ feedGame > 0
  /\ \/ feedState = "FUT" /\ feedState' = "LIVE"
     \/ feedState = "LIVE" /\ feedState' \in {"CRIT", "OFF"}
     \/ feedState = "CRIT" /\ feedState' = "OFF"
  /\ UNCHANGED <<feedGame, feedGoals, seasonGoals, otherGoals, apiCareer>>
  /\ UNCHANGED <<redisGoalVars, ingVars, markReturn, reconciled, lastEmitted>>

\* The subject scores in the live game: the feed lists the goal with his
\* season goals-to-date.
OvechkinScores ==
  /\ feedGame > 0 /\ feedState \in LiveGameStates
  /\ seasonGoals < GoalsBound
  /\ seasonGoals' = seasonGoals + 1
  /\ feedGoals' = Append(feedGoals, [playerID |-> OvechkinPlayerID, goalsToDate |-> seasonGoals + 1])
  /\ UNCHANGED <<feedGame, feedState, otherGoals, apiCareer>>
  /\ UNCHANGED <<redisGoalVars, ingVars, markReturn, reconciled, lastEmitted>>

\* Another player scores; his goals-to-date may equal one of the subject's.
OtherScores ==
  /\ feedGame > 0 /\ feedState \in LiveGameStates
  /\ otherGoals < MaxOtherGoals
  /\ otherGoals' = otherGoals + 1
  /\ feedGoals' = Append(feedGoals, [playerID |-> OtherPlayerID, goalsToDate |-> 1])
  /\ UNCHANGED <<feedGame, feedState, seasonGoals, apiCareer>>
  /\ UNCHANGED <<redisGoalVars, ingVars, markReturn, reconciled, lastEmitted>>

\* The landing endpoint catches up with one more goal.
ApiCatchesUp ==
  /\ apiCareer < RealCareer
  /\ apiCareer' = apiCareer + 1
  /\ UNCHANGED <<feedGame, feedState, feedGoals, seasonGoals, otherGoals>>
  /\ UNCHANGED <<redisGoalVars, ingVars, markReturn, reconciled, lastEmitted>>

(***************************************************************************)
(* Redis key expiry.  seenGoalsTTL is seven days, far longer than a game   *)
(* is live, so a game's seen-set can expire only once the feed no longer   *)
(* lists the game as live and no tick is still working on it.              *)
(***************************************************************************)
SeenGoalsExpire(g) ==
  /\ seenTTL[g]
  /\ seenGoals[g] # {}
  /\ feedGame # g \/ feedState = "OFF"
  /\ \A p \in Ingestors : ipc[p] \in {"stopped", "idle"}
  /\ seenGoals' = [seenGoals EXCEPT ![g] = {}]
  /\ seenTTL' = [seenTTL EXCEPT ![g] = FALSE]
  /\ UNCHANGED <<goalsStream, feedVars, ingVars, markReturn, reconciled, lastEmitted>>

(***************************************************************************)
(* stream.Producer                                                         *)
(***************************************************************************)
\* SADD answering 1 whether or not the member was present.
SAddCountAlwaysOne(set, member) == 1

\* SADD key member: the number of members added (0 when already present).
SAddCount(set, member) == IF member \in set THEN 0 ELSE 1

\* The history of MarkGoalSeen's answers for one pair: "first" after the one
\* alreadySeen=false, "dup" once true followed it, "bad" for any other order.
NextReturn(old, alreadySeen) ==
  IF alreadySeen
    THEN (IF old \in {"first", "dup"} THEN "dup" ELSE "bad")
    ELSE (IF old = "none" THEN "first" ELSE "bad")

\* MarkGoalSeen without its "added == 0" answer: every successful SADD
\* is reported as a new goal.
MarkGoalSeenResultNoDup(gameID, goalsToDate, saddOk) ==
  IF ~saddOk THEN "err" ELSE "new"

\* MarkGoalSeen(gameID, goalsToDate) with its Redis commands' outcomes:
\* saddOk, expireOk.  res is "err", "seen" (alreadySeen=true) or "new".
MarkGoalSeenResult(gameID, goalsToDate, saddOk) ==
  IF ~saddOk THEN "err"
  ELSE IF SAddCount(seenGoals[gameID], goalsToDate) = 0 THEN "seen"
  ELSE "new"

MarkGoalSeenEffect(gameID, goalsToDate, saddOk, expireOk) ==
  /\ seenGoals' = IF saddOk
                    THEN [seenGoals EXCEPT ![gameID] = @ \cup {goalsToDate}]
                    ELSE seenGoals
  /\ seenTTL' = IF saddOk /\ SAddCount(seenGoals[gameID], goalsToDate) = 1 /\ expireOk
                  THEN [seenTTL EXCEPT ![gameID] = TRUE]
                  ELSE seenTTL
  /\ markReturn' = IF saddOk
                     THEN [markReturn EXCEPT ![<<gameID, goalsToDate>>] =
                             NextReturn(@, SAddCount(seenGoals[gameID], goalsToDate) = 0)]
                     ELSE markReturn

(***************************************************************************)
(* ingestor main                                                           *)
(***************************************************************************)
\* A GoalEvent: goals is the payload's Goals; gameID, goalsToDate and scorer are
\* history, naming the feed goal the event was built for.
NoEvt == [goals |-> 0, gameID |-> 0, goalsToDate |-> 0, scorer |-> 0]

\* Process start: ping Redis, fetch the career total; either failing exits.
IngestorStart(p) ==
  /\ p \in active
  /\ ipc[p] = "stopped"
  /\ \E pingOk, careerOk \in BOOLEAN :
       IF pingOk /\ careerOk
         THEN /\ ipc' = [ipc EXCEPT ![p] = "idle"]
              /\ lastKnownCareerTotal' = [lastKnownCareerTotal EXCEPT ![p] = apiCareer]
         ELSE UNCHANGED <<ipc, lastKnownCareerTotal>>
  /\ UNCHANGED <<active, caps, todo, evt, feedVars, redisGoalVars, markReturn, reconciled,
                 lastEmitted>>

\* A reconciliation that takes whatever CareerGoals returned.
ReconciledEitherWay(local, careerOk) ==
  IF careerOk THEN apiCareer ELSE local

\* lastKnownCareerTotal after the reconciliation against CareerGoals.
Reconciled(local, careerOk) ==
  IF careerOk /\ apiCareer > local THEN apiCareer ELSE local

\* History of a tick: fetched is the total a successful CareerGoals of the
\* no-game or not-live branch returned, before the local total it met.
NoRec == [fetched |-> 0, before |-> 0]

\* One ticker tick up to the goal loop: score/now, then either the
\* reconciliation (no game, or game not live) or the start of the goal loop.
PollTick(p) ==
  /\ ipc[p] = "idle"
  /\ \E scoreOk, careerOk \in BOOLEAN :
       IF ~scoreOk
         THEN /\ reconciled' = [reconciled EXCEPT ![p] = NoRec]
              /\ UNCHANGED <<ipc, lastKnownCareerTotal, caps, todo>>
       ELSE IF feedGame = 0 \/ feedState \notin LiveGameStates
         THEN /\ lastKnownCareerTotal' =
                   [lastKnownCareerTotal EXCEPT ![p] = Reconciled(@, careerOk)]
              /\ reconciled' =
                   [reconciled EXCEPT ![p] =
                      IF careerOk
                        THEN [fetched |-> apiCareer, before |-> lastKnownCareerTotal[p]]
                        ELSE NoRec]
              /\ UNCHANGED <<ipc, caps, todo>>
       ELSE /\ caps' = [caps EXCEPT ![p] = feedGame]
            /\ todo' = [todo EXCEPT ![p] = feedGoals]
            /\ ipc' = [ipc EXCEPT ![p] = IF feedGoals = <<>> THEN "idle" ELSE "mark"]
            /\ reconciled' = [reconciled EXCEPT ![p] = NoRec]
            /\ UNCHANGED lastKnownCareerTotal
  /\ UNCHANGED <<active, evt, feedVars, redisGoalVars, markReturn, lastEmitted>>

\* The loop moves to its next goal, or the tick ends.
Advance(p) ==
  /\ todo' = [todo EXCEPT ![p] = Tail(@)]
  /\ ipc' = [ipc EXCEPT ![p] = IF Tail(todo[p]) = <<>> THEN "idle" ELSE "mark"]

\* The goal loop without its player filter.
IsSubjectGoalAnyPlayer(g) == TRUE

\* Whether the loop visits this goal (the subject's) or skips it.
IsSubjectGoal(g) == g.playerID = OvechkinPlayerID

\* The local total after a new goal, were it taken from the landing endpoint.
CareerAfterGoalFromApi(local) == apiCareer

\* lastKnownCareerTotal++ for a new goal.
CareerAfterGoal(local) == local + 1

\* One iteration of the goal loop up to MarkGoalSeen's answer.
GoalLoopMark(p) ==
  /\ ipc[p] = "mark"
  /\ LET g == Head(todo[p]) IN
       IF ~IsSubjectGoal(g)
         THEN /\ Advance(p)
              /\ UNCHANGED <<lastKnownCareerTotal, evt, seenGoals, seenTTL, markReturn, reconciled>>
         ELSE \E saddOk, expireOk \in BOOLEAN :
                /\ MarkGoalSeenEffect(caps[p], g.goalsToDate, saddOk, expireOk)
                /\ IF MarkGoalSeenResult(caps[p], g.goalsToDate, saddOk) = "new"
                     THEN /\ lastKnownCareerTotal' =
                               [lastKnownCareerTotal EXCEPT ![p] = CareerAfterGoal(@)]
                          /\ evt' = [evt EXCEPT ![p] =
                                       [goals |-> CareerAfterGoal(lastKnownCareerTotal[p]),
                                        gameID |-> caps[p], goalsToDate |-> g.goalsToDate,
                                        scorer |-> g.playerID]]
                          /\ ipc' = [ipc EXCEPT ![p] = "emit"]
                          /\ UNCHANGED todo
                     ELSE /\ Advance(p)
                          /\ UNCHANGED <<lastKnownCareerTotal, evt>>
  /\ UNCHANGED <<active, caps, goalsStream, feedVars, reconciled, lastEmitted>>

\* The rest of the iteration: EmitGoalEvent (XADD), whose failure is logged.
GoalLoopEmit(p) ==
  /\ ipc[p] = "emit"
  /\ \E xaddOk \in BOOLEAN :
       /\ goalsStream' = IF xaddOk THEN Append(goalsStream, evt[p]) ELSE goalsStream
       /\ lastEmitted' = IF xaddOk THEN [lastEmitted EXCEPT ![p] = evt[p].goals]
                         ELSE lastEmitted
  /\ evt' = [evt EXCEPT ![p] = NoEvt]
  /\ Advance(p)
  /\ UNCHANGED <<active, lastKnownCareerTotal, caps, seenGoals, seenTTL, feedVars, markReturn, reconciled>>

\* The process is stopped (signal, crash, redeploy) wherever it is; its
\* memory is gone.
IngestorStop(p) ==
  /\ ipc[p] # "stopped"
  /\ ipc' = [ipc EXCEPT ![p] = "stopped"]
  /\ lastKnownCareerTotal' = [lastKnownCareerTotal EXCEPT ![p] = 0]
  /\ caps' = [caps EXCEPT ![p] = 0]
  /\ todo' = [todo EXCEPT ![p] = <<>>]
  /\ evt' = [evt EXCEPT ![p] = NoEvt]
  /\ reconciled' = [reconciled EXCEPT ![p] = NoRec]
  /\ lastEmitted' = [lastEmitted EXCEPT ![p] = 0]
  /\ UNCHANGED <<active, feedVars, redisGoalVars, markReturn>>

InitIngestorWith(deployed) ==
  /\ feedGame = 0 /\ feedState = "OFF" /\ feedGoals = <<>>
  /\ seasonGoals = 0 /\ otherGoals = 0 /\ apiCareer = CareerStart
  /\ seenGoals = [g \in GameIds |-> {}]
  /\ seenTTL = [g \in GameIds |-> FALSE]
  /\ goalsStream = <<>>
  /\ active = deployed
  /\ ipc = [p \in Ingestors |-> "stopped"]
  /\ lastKnownCareerTotal = [p \in Ingestors |-> 0]
  /\ caps = [p \in Ingestors |-> 0]
  /\ todo = [p \in Ingestors |-> <<>>]
  /\ evt = [p \in Ingestors |-> NoEvt]
  /\ markReturn = [pr \in Pairs |-> "none"]
  /\ reconciled = [p \in Ingestors |-> NoRec]
  /\ lastEmitted = [p \in Ingestors |-> 0]

\* One ingestor is deployed, or two against the same Redis.
InitIngestor == \E deployed \in {{"i1"}, Ingestors} : InitIngestorWith(deployed)
IngestorIdle == InitIngestorWith({})

(***************************************************************************)
(* predictor/internal/model: the scoring-probability estimator.            *)
(*                                                                         *)
(* The Go code computes in float64.  Here a float is held in fixed point:  *)
(* thousandths (a value v stands for v/1000), and the logistic weights in  *)
(* millionths.  Percentages computed this way are within one point of     *)
(* the float64 ones.                                                       *)
(***************************************************************************)
Milli == 10 * 100

\* Product and quotient of two non-negative values, to the nearest thousandth.
Mul(a, b) == (a * b + Milli \div 2) \div Milli
Quot(a, b) == (a * Milli + b \div 2) \div b
Clamp(v, lo, hi) == IF v < lo THEN lo ELSE IF v > hi THEN hi ELSE v

\* math.Round(v * 100) for a non-negative v in thousandths, as an int.
RoundPct(v) == (v + 5) \div 10

\* math.Exp(-x) for x >= 0: e^-1 per whole unit, then the Taylor series of
\* the fractional part.
ExpNegFrac(f) ==
  LET t2 == (f * f) \div (2 * Milli)
      t3 == (t2 * f) \div (3 * Milli)
      t4 == (t3 * f) \div (4 * Milli)
      t5 == (t4 * f) \div (5 * Milli)
      t6 == (t5 * f) \div (6 * Milli)
  IN  Milli - f + t2 - t3 + t4 - t5 + t6

RECURSIVE ExpNegUnits(_)
ExpNegUnits(k) == IF k = 0 THEN Milli ELSE (ExpNegUnits(k - 1) * 368) \div Milli

ExpNeg(x) == Mul(ExpNegUnits(x \div Milli), ExpNegFrac(x % Milli))

baselineGamesMax == 82
recentGames == 5
leagueAvgSavePct == 905
goalieFactorMin == 880
goalieFactorMax == 1120
minGamesForLogistic == 50
logisticIters == 400

\* clampPct without its upper limit.
clampPctNoUpper(pct) == IF pct < 15 THEN 15 ELSE pct

clampPct(pct) ==
  IF pct < 15 THEN 15
  ELSE IF pct > 75 THEN 75
  ELSE pct

\* Sum of Goals over gameLog[lo..hi].
RECURSIVE SumGoals(_, _, _)
SumGoals(gameLog, lo, hi) ==
  IF lo > hi THEN 0 ELSE gameLog[hi].Goals + SumGoals(gameLog, lo, hi - 1)

Teams(standings) == DOMAIN standings

RECURSIVE SumField(_, _, _)
SumField(standings, teams, field) ==
  IF teams = {} THEN 0
  ELSE LET t == CHOOSE t \in teams : TRUE
       IN  standings[t][field] + SumField(standings, teams \ {t}, field)

\* leagueAvgGAFromStandings: 3.0 without standings or games.
leagueAvgGAFromStandings(standings) ==
  IF Teams(standings) = {} THEN 3 * Milli
  ELSE LET sumGA == SumField(standings, Teams(standings), "GoalAgainst")
           sumGP == SumField(standings, Teams(standings), "GamesPlayed")
       IN  IF sumGP = 0 THEN 3 * Milli ELSE Quot(sumGA, sumGP)

leagueAvgPaceFromStandings(standings) ==
  IF Teams(standings) = {} THEN 3 * Milli
  ELSE LET sumGF == SumField(standings, Teams(standings), "GoalsFor")
           sumGA == SumField(standings, Teams(standings), "GoalAgainst")
           sumGP == SumField(standings, Teams(standings), "GamesPlayed")
       IN  IF sumGP = 0 THEN 3 * Milli ELSE Quot(sumGF + sumGA, 2 * sumGP)

effectiveOppGAPerGameVenue(t, capsHome) ==
  IF t.GamesPlayed = 0 THEN 3 * Milli
  ELSE LET venueGA == IF capsHome THEN t.RoadGoalsAgainst ELSE t.HomeGoalsAgainst
           venueGP == IF capsHome THEN t.RoadGamesPlayed ELSE t.HomeGamesPlayed
           full == Quot(t.GoalAgainst, t.GamesPlayed)
       IN  IF venueGP >= 5
             THEN IF t.L10GamesPlayed >= 5
                    THEN (7 * Quot(venueGA, venueGP) + 3 * Quot(t.L10GoalsAgainst, t.L10GamesPlayed)) \div 10
                    ELSE Quot(venueGA, venueGP)
             ELSE IF t.L10GamesPlayed >= 5
                    THEN (7 * full + 3 * Quot(t.L10GoalsAgainst, t.L10GamesPlayed)) \div 10
                    ELSE full

\* The last (at most 10) meetings with the opponent, newest first:
\* <<games, goals>>.
RECURSIVE VsOpponent(_, _, _, _, _)
VsOpponent(gameLog, opponent, i, games, goals) ==
  IF i < 1 \/ games >= 10 THEN <<games, goals>>
  ELSE IF gameLog[i].OpponentAbbrev # opponent
    THEN VsOpponent(gameLog, opponent, i - 1, games, goals)
    ELSE VsOpponent(gameLog, opponent, i - 1, games + 1, goals + gameLog[i].Goals)

oviVsOpponentFactor(gameLog, opponent, baselineGPG) ==
  LET vs == VsOpponent(gameLog, opponent, Len(gameLog), 0, 0)
  IN  IF vs[1] < 3 \/ baselineGPG <= 0 THEN Milli
      ELSE Clamp(Quot(Quot(vs[2], vs[1]), baselineGPG), 850, 1150)

paceFactorForOpponent(standings, opponent) ==
  IF opponent \notin Teams(standings) THEN Milli
  ELSE IF standings[opponent].L10GamesPlayed < 5 THEN Milli
  ELSE LET t == standings[opponent]
           oppPace == Quot(t.L10GoalsFor + t.L10GoalsAgainst, 2 * t.L10GamesPlayed)
           leaguePace == leagueAvgPaceFromStandings(standings)
       IN  IF leaguePace <= 0 THEN Milli
           ELSE Clamp(Quot(oppPace, leaguePace), 970, 1030)

\* A rest factor that is neutral when the game falls on the day of the last one.
restFactorSameDayNeutral(g, gameLog) ==
  IF Len(gameLog) = 0 THEN Milli
  ELSE LET last == gameLog[Len(gameLog)]
       IN  IF ~last.GameDate.valid THEN Milli
           ELSE LET daysBetween == g.startDay - last.GameDate.day
                IN  IF daysBetween = 1 THEN 920
                    ELSE IF daysBetween >= 2 THEN 1020
                    ELSE Milli

\* restFactor: GameDate parses to a day number or does not parse; the game's
\* start is truncated to its UTC day.
restFactor(g, gameLog) ==
  IF Len(gameLog) = 0 THEN Milli
  ELSE LET last == gameLog[Len(gameLog)]
       IN  IF ~last.GameDate.valid THEN Milli
           ELSE LET daysBetween == g.startDay - last.GameDate.day
                IN  IF daysBetween <= 1 THEN 920
                    ELSE IF daysBetween >= 2 THEN 1020
                    ELSE Milli

\* A quotient of two zeros is NaN in float64: no number of thousandths.
NaN == 0 - 1

\* The baseline goals per game of predictHeuristic.
HeuristicBaselineGPG(gameLog) ==
  LET baselineStart == IF Len(gameLog) > baselineGamesMax
                         THEN Len(gameLog) - baselineGamesMax ELSE 0
  IN  Quot(SumGoals(gameLog, baselineStart + 1, Len(gameLog)), Len(gameLog) - baselineStart)

\* The factors predictHeuristic multiplies.  The opponent factor divides by
\* the league average without a test for zero: a positive numerator gives
\* +Inf, which the upper clamp catches, and 0/0 gives NaN, which passes both
\* comparisons of the clamp.
HeuristicFactors(g, gameLog, standings, goalieSavePct) ==
  LET baselineGPG == HeuristicBaselineGPG(gameLog)
      leagueAvgGA == leagueAvgGAFromStandings(standings)
      hasOpp == g.opponent \in Teams(standings)
      gaPerGame == effectiveOppGAPerGameVenue(standings[g.opponent], g.isHome)
      n == IF Len(gameLog) < recentGames THEN Len(gameLog) ELSE recentGames
      recentGoals == SumGoals(gameLog, Len(gameLog) - n + 1, Len(gameLog))
  IN  [oppFactor |->
         IF hasOpp /\ standings[g.opponent].GamesPlayed > 0
           THEN IF leagueAvgGA = 0
                  THEN IF gaPerGame = 0 THEN NaN ELSE 1350
                  ELSE Clamp(Quot(gaPerGame, leagueAvgGA), 750, 1350)
           ELSE Milli,
       homeFactor |-> IF g.isHome THEN 1050 ELSE 950,
       recentFactor |->
         IF n > 0 /\ baselineGPG > 0
           THEN Clamp(Quot(Quot(recentGoals, n), baselineGPG), 600, 1400)
           ELSE Milli,
       oviVsOppFactor |-> oviVsOpponentFactor(gameLog, g.opponent, baselineGPG),
       pointStrengthFactor |->
         IF hasOpp /\ standings[g.opponent].PointPctg > 0
           THEN Clamp(960 + (80 * standings[g.opponent].PointPctg) \div Milli, 920, 1080)
           ELSE Milli,
       paceFactor |-> paceFactorForOpponent(standings, g.opponent),
       restFactor |-> restFactor(g, gameLog),
       goalieFactor |->
         IF goalieSavePct > 0 /\ goalieSavePct < Milli
           THEN Clamp(Quot(leagueAvgSavePct, goalieSavePct), goalieFactorMin, goalieFactorMax)
           ELSE Milli]

\* int() of a NaN product is the most negative integer on amd64 and 0 on
\* arm64; clampPct makes 15 of both.  The factors are computed once and
\* bound to f.
predictHeuristic(g, gameLog, standings, goalieSavePct) ==
  LET baseProb == Milli - ExpNeg(HeuristicBaselineGPG(gameLog))
      Prob(f) == Mul(Mul(Mul(Mul(Mul(Mul(Mul(Mul(baseProb, f.oppFactor), f.homeFactor),
                   f.recentFactor), f.oviVsOppFactor), f.pointStrengthFactor), f.paceFactor),
                   f.restFactor), f.goalieFactor)
      Pct(f) == IF f.oppFactor = NaN THEN clampPct(NaN) ELSE clampPct(RoundPct(Prob(f)))
  IN  CHOOSE pct \in {Pct(f) : f \in {HeuristicFactors(g, gameLog, standings, goalieSavePct)}} :
        TRUE

\* baselineGPGFrom over gameLog[1..upTo]: 0.4 without games.
baselineGPGFrom(gameLog, upTo, maxGames) ==
  IF upTo = 0 THEN 400
  ELSE LET start == IF upTo > maxGames THEN upTo - maxGames ELSE 0
       IN  Quot(SumGoals(gameLog, start + 1, upTo), upTo - start)

\* (recentGoals / n) / baselineGPG over the last (at most 5) of gameLog[1..upTo].
RecentRatio(gameLog, upTo, baselineGPG) ==
  LET n == IF upTo < recentGames THEN upTo ELSE recentGames
  IN  IF baselineGPG > 0 /\ n > 0
        THEN Quot(Quot(SumGoals(gameLog, upTo - n + 1, upTo), n), baselineGPG)
        ELSE Milli

\* The feature vector [1, home, oppGA/leagueAvg, baselineGPG, recentRatio].
Features(gameLog, upTo, standings, opponent, home, leagueAvgGA) ==
  LET baselineGPG == baselineGPGFrom(gameLog, upTo, baselineGamesMax)
      oppGA == IF opponent \in Teams(standings) /\ standings[opponent].GamesPlayed > 0
                 THEN effectiveOppGAPerGameVenue(standings[opponent], home)
                 ELSE leagueAvgGA
  IN  <<Milli, IF home THEN Milli ELSE 0, Quot(oppGA, leagueAvgGA), baselineGPG,
        RecentRatio(gameLog, upTo, baselineGPG)>>

\* The training samples of gameLog[7..upTo] (Go's i = 6..len-1), each from
\* the games before it.
RECURSIVE Samples(_, _, _, _)
Samples(gameLog, upTo, standings, leagueAvgGA) ==
  IF upTo < 7 THEN <<>>
  ELSE Append(Samples(gameLog, upTo - 1, standings, leagueAvgGA),
              [x |-> Features(gameLog, upTo - 1, standings, gameLog[upTo].OpponentAbbrev,
                              gameLog[upTo].HomeRoadFlag = "H", leagueAvgGA),
               y |-> IF gameLog[upTo].Goals > 0 THEN Milli ELSE 0])

sigmoid(z) ==
  IF z > 20 * Milli THEN Milli
  ELSE IF z < -20 * Milli THEN 0
  ELSE IF z >= 0 THEN (Milli * Milli) \div (Milli + ExpNeg(z))
  ELSE (Milli * ExpNeg(-z)) \div (Milli + ExpNeg(-z))

\* dot(w, x) in thousandths: w in millionths, x in thousandths.
DotTerm(wk, xk) == ((wk \div Milli) * xk) \div Milli
dot(w, x) ==
  DotTerm(w[1], x[1]) + DotTerm(w[2], x[2]) + DotTerm(w[3], x[3])
    + DotTerm(w[4], x[4]) + DotTerm(w[5], x[5])

\* One sample's step: w[k] -= logisticLR * err * x[k] / len(samples), with
\* logisticLR = 0.15.
GradStep(w, s, n) ==
  LET err == sigmoid(dot(w, s.x)) - s.y
  IN  <<w[1] - (15 * err * s.x[1]) \div (100 * n),
        w[2] - (15 * err * s.x[2]) \div (100 * n),
        w[3] - (15 * err * s.x[3]) \div (100 * n),
        w[4] - (15 * err * s.x[4]) \div (100 * n),
        w[5] - (15 * err * s.x[5]) \div (100 * n)>>

\* One pass over samples[lo..hi], in order.  (Len(w) is asked first so that
\* w is evaluated before the pass descends.)
RECURSIVE TrainPass(_, _, _, _)
TrainPass(w, samples, lo, hi) ==
  IF Len(w) # 5 \/ lo > hi THEN w
  ELSE IF lo = hi THEN GradStep(w, samples[lo], Len(samples))
  ELSE TrainPass(TrainPass(w, samples, lo, (lo + hi) \div 2),
                 samples, (lo + hi) \div 2 + 1, hi)

\* iters passes, one after the other.
RECURSIVE Train(_, _, _)
Train(w, samples, iters) ==
  IF Len(w) # 5 \/ iters = 0 THEN w
  ELSE IF iters = 1 THEN TrainPass(w, samples, 1, Len(samples))
  ELSE Train(Train(w, samples, iters \div 2), samples, iters - iters \div 2)

\* LogisticPredict without the minimum-history check: it trains on
\* whatever samples the log gives.
LogisticPredictNoMinimum(g, gameLog, standings) ==
  LET leagueAvgGA == leagueAvgGAFromStandings(standings)
      samples == Samples(gameLog, Len(gameLog), standings, leagueAvgGA)
  IN  IF Len(samples) < 1 THEN 50
      ELSE LET w == Train(<<0, 0, 0, 0, 0>>, samples, logisticIters)
               x == Features(gameLog, Len(gameLog), standings, g.opponent, g.isHome, leagueAvgGA)
           IN  Clamp(RoundPct(sigmoid(dot(w, x))), 15, 75)

LogisticPredict(g, gameLog, standings) ==
  IF Len(gameLog) < minGamesForLogistic THEN -1
  ELSE LET leagueAvgGA == leagueAvgGAFromStandings(standings)
           samples == Samples(gameLog, Len(gameLog), standings, leagueAvgGA)
       IN  IF Len(samples) < 20 THEN -1
           ELSE LET w == Train(<<0, 0, 0, 0, 0>>, samples, logisticIters)
                    x == Features(gameLog, Len(gameLog), standings, g.opponent, g.isHome,
                                  leagueAvgGA)
                IN  Clamp(RoundPct(sigmoid(dot(w, x))), 15, 75)

\* Predict with the average rounded to the nearest point, halves up.
PredictRoundedAverage(g, gameLog, standings, goalieSavePct) ==
  IF Len(gameLog) = 0 THEN 45
  ELSE LET heuristic == predictHeuristic(g, gameLog, standings, goalieSavePct)
           logPct == LogisticPredict(g, gameLog, standings)
       IN  IF logPct >= 0 THEN clampPct((heuristic + logPct + 1) \div 2) ELSE heuristic

\* Predict without the empty-log default.
PredictNoDefault(g, gameLog, standings, goalieSavePct) ==
  IF Len(gameLog) = 0 THEN 15
  ELSE predictHeuristic(g, gameLog, standings, goalieSavePct)

Predict(g, gameLog, standings, goalieSavePct) ==
  IF Len(gameLog) = 0 THEN 45
  ELSE LET heuristic == predictHeuristic(g, gameLog, standings, goalieSavePct)
           logPct == LogisticPredict(g, gameLog, standings)
       IN  IF logPct >= 0 THEN clampPct((heuristic + logPct) \div 2) ELSE heuristic

(***************************************************************************)
(* Market odds.  An American odds line is a string, here the sequence of   *)
(* its characters.                                                         *)
(***************************************************************************)
DigitChars == <<"0", "1", "2", "3", "4", "5", "6", "7", "8", "9">>

RECURSIVE FormatDigits(_)
FormatDigits(n) ==
  IF n < 10 THEN <<DigitChars[n + 1]>>
  ELSE Append(FormatDigits(n \div 10), DigitChars[(n % 10) + 1])

formatAmerican(price) ==
  IF price > 0 THEN <<"+">> \o FormatDigits(price)
  ELSE IF price < 0 THEN <<"-">> \o FormatDigits(-price)
  ELSE FormatDigits(0)

ImpliedPct(american) ==
  IF american >= 0 THEN (100 * 100) \div (100 + american)
  ELSE (100 * (-american)) \div (100 + (-american))

IsDigit(c) == \E d \in 1..10 : DigitChars[d] = c
DigitValue(c) == (CHOOSE d \in 1..10 : DigitChars[d] = c) - 1

RECURSIVE ParseDigits(_, _)
ParseDigits(chars, upTo) ==
  IF upTo = 0 THEN 0 ELSE 10 * ParseDigits(chars, upTo - 1) + DigitValue(chars[upTo])

\* The implied percentage of an odds line such as "+140" or "-150":
\* <<implied, ok>>, ok = FALSE when the line is not a signed number.
ImpliedPctFromAmerican(line) ==
  LET signed == Len(line) > 0 /\ line[1] \in {"+", "-"}
      digits == IF signed THEN Tail(line) ELSE line
      wellFormed == Len(digits) > 0 /\ \A k \in 1..Len(digits) : IsDigit(digits[k])
      magnitude == ParseDigits(digits, Len(digits))
  IN  IF ~wellFormed THEN <<0, FALSE>>
      ELSE IF signed /\ line[1] = "-" THEN <<ImpliedPct(-magnitude), TRUE>>
      ELSE <<ImpliedPct(magnitude), TRUE>>

\* int(0.85*pct + 0.15*implied + 0.5): the floor of the exact sum, or one
\* less when the exact sum is a whole number and the float64 sum falls just
\* short of it (roundedDown; it depends on the operands and on whether the
\* build fuses the multiply-adds).
BlendedInt(pct, implied, roundedDown) ==
  LET exact == 85 * pct + 15 * implied + 50
  IN  IF roundedDown /\ exact % 100 = 0 THEN exact \div 100 - 1 ELSE exact \div 100

MarketBlend(pct, implied, roundedDown) ==
  LET blended == BlendedInt(pct, implied, roundedDown)
  IN  IF blended < 15 THEN 15 ELSE IF blended > 75 THEN 75 ELSE blended

\* The caller's market step: the blend when a line is present, parses and
\* implies more than 0.
MarketStep(pct, line, roundedDown) ==
  IF line = <<>> THEN pct
  ELSE LET implied == ImpliedPctFromAmerican(line)
       IN  IF implied[2] /\ implied[1] > 0
             THEN MarketBlend(pct, implied[1], roundedDown) ELSE pct

(***************************************************************************)
(* Calibration.  A log entry either fails to unmarshal (ok = FALSE) or     *)
(* carries PredPct and Scored.  A scale is the exact fraction <<num, den>> *)
(* in lowest terms.                                                        *)
(***************************************************************************)
calibrationMinGames == 10

LRange(list, first, last) ==
  SubSeq(list, first + 1, IF last + 1 > Len(list) THEN Len(list) ELSE last + 1)

RECURSIVE SumEntries(_, _, _)
SumEntries(entries, upTo, field) ==
  IF upTo = 0 THEN 0
  ELSE SumEntries(entries, upTo - 1, field)
         + (IF entries[upTo].ok THEN entries[upTo][field] ELSE 0)

RECURSIVE GCD(_, _)
GCD(a, b) == IF b = 0 THEN a ELSE GCD(b, a % b)

\* Fractions with a positive denominator, in lowest terms.
Frac(num, den) ==
  LET d == GCD(IF num < 0 THEN -num ELSE num, den) IN <<num \div d, den \div d>>
FracDiv(a, b) == Frac(a[1] * b[2], a[2] * b[1])
FracLess(a, b) == a[1] * b[2] < b[1] * a[2]

\* calibrationScale without the minimum number of games.
calibrationScaleNoMinimum(list, readOk) ==
  LET entries == LRange(list, 0, 99)
      sumScored == SumEntries(entries, Len(entries), "Scored")
      sumPredPct == SumEntries(entries, Len(entries), "PredPct")
      hitRate == Frac(sumScored, Len(entries))
      meanPred == Frac(sumPredPct, 100 * Len(entries))
      scale == FracDiv(hitRate, meanPred)
  IN  IF ~readOk THEN <<1, 1>>
      ELSE IF sumPredPct <= 0 THEN <<1, 1>>
      ELSE IF FracLess(scale, <<4, 5>>) THEN <<4, 5>>
      ELSE IF FracLess(<<6, 5>>, scale) THEN <<6, 5>>
      ELSE scale

\* hitRate = sumScored / len, meanPred = (sumPredPct / 100) / len,
\* scale = hitRate / meanPred, clamped to [0.8, 1.2].
calibrationScale(list, readOk) ==
  LET entries == LRange(list, 0, 99)
      sumScored == SumEntries(entries, Len(entries), "Scored")
      sumPredPct == SumEntries(entries, Len(entries), "PredPct")
      hitRate == Frac(sumScored, Len(entries))
      meanPred == Frac(sumPredPct, 100 * Len(entries))
      scale == FracDiv(hitRate, meanPred)
  IN  IF ~readOk \/ Len(entries) < calibrationMinGames THEN <<1, 1>>
      ELSE IF sumPredPct <= 0 THEN <<1, 1>>
      ELSE IF FracLess(scale, <<4, 5>>) THEN <<4, 5>>
      ELSE IF FracLess(<<6, 5>>, scale) THEN <<6, 5>>
      ELSE scale

\* int(pct*scale + 0.5), with the same float64 caveat as BlendedInt.
CalibratedInt(pct, scale, roundedDown) ==
  LET exact == 2 * pct * scale[1] + scale[2]
  IN  IF roundedDown /\ exact % (2 * scale[2]) = 0
        THEN exact \div (2 * scale[2]) - 1 ELSE exact \div (2 * scale[2])

\* The caller's calibration step, applied when scale != 1.0.
CalibrationStep(pct, scale, roundedDown) ==
  IF scale = <<1, 1>> THEN pct
  ELSE Clamp(CalibratedInt(pct, scale, roundedDown), 15, 75)

(***************************************************************************)
(* The prediction pipeline applied to drawn inputs: model.Predict, then    *)
(* the caller's market blend and calibration (predictor main, run).        *)
(***************************************************************************)
MaxGoalsPerGame == 2

VARIABLES
  inGame,         \* the next game: [gameID, opponent, isHome, startDay]
  inGameLog,      \* ovechkin:game_log, oldest first
  inStandings,    \* ovechkin:standings: team -> StandingsTeam
  inGoalie,       \* the opposing starter's save percentage, thousandths; 0 unknown
  inOdds,         \* the odds line, <<>> when none
  inCalibLog,     \* ovechkin:calibration:log
  calibReadOk,    \* whether the LRANGE of the log succeeded
  stage,          \* how far the pipeline has come
  logisticPct,    \* LogisticPredict's result
  heuristicPct,   \* predictHeuristic's result
  modelPct,       \* Predict's result
  blendedPct,     \* pct after the market step
  scale,          \* calibrationScale's result
  finalPct,       \* pct after the calibration step, handed to WriteNextPrediction
  factors         \* the factors predictHeuristic multiplied, <<>> before it ran

pipelineVars == <<inGame, inGameLog, inStandings, inGoalie, inOdds, inCalibLog,
                  calibReadOk, stage,
                  logisticPct, heuristicPct, modelPct, blendedPct, scale, finalPct,
                  factors>>

\* Goals of game i of a log, by the shape of the scoring record.
GoalsAt(shape, i, n) ==
  CASE shape = "cold" -> 0
    [] shape = "hot" -> MaxGoalsPerGame
    [] shape = "mixed" -> IF i % 3 = 0 THEN 1 ELSE 0
    [] shape = "streak" -> IF i > n - 5 THEN MaxGoalsPerGame ELSE IF i = 1 THEN 1 ELSE 0

OpponentAt(i) == IF i % 3 = 0 THEN "BOS" ELSE IF i % 3 = 1 THEN "NYR" ELSE "PIT"

\* A game log of n games, one every second day.
MakeLog(n, shape) ==
  [i \in 1..n |-> [GameDate |-> [valid |-> shape # "cold", day |-> 2 * i],
                   OpponentAbbrev |-> OpponentAt(i),
                   HomeRoadFlag |-> IF i % 2 = 0 THEN "H" ELSE "R",
                   Goals |-> GoalsAt(shape, i, n)]]

LogShapes ==
  {<<0, "cold">>, <<1, "hot">>, <<1, "cold">>, <<6, "mixed">>, <<6, "hot">>,
   <<49, "mixed">>, <<49, "hot">>,
   <<50, "mixed">>, <<50, "cold">>, <<50, "hot">>, <<56, "streak">>}

GameLogs == {MakeLog(sh[1], sh[2]) : sh \in LogShapes}

\* Upcoming games: opponent, venue and days since the last game of the log.
GameShapes == {<<"BOS", TRUE, 1>>, <<"NYR", FALSE, 3>>}

MakeGame(sh, gameLog) ==
  [gameID |-> 1, opponent |-> sh[1], isHome |-> sh[2],
   startDay |-> 2 * Len(gameLog) + sh[3]]

Team(gp, ga, gf, pointPctg, l10gp, l10ga, l10gf, homeGA, homeGP, roadGA, roadGP) ==
  [GamesPlayed |-> gp, GoalAgainst |-> ga, GoalsFor |-> gf, PointPctg |-> pointPctg,
   L10GamesPlayed |-> l10gp, L10GoalsAgainst |-> l10ga, L10GoalsFor |-> l10gf,
   HomeGoalsAgainst |-> homeGA, HomeGamesPlayed |-> homeGP,
   RoadGoalsAgainst |-> roadGA, RoadGamesPlayed |-> roadGP]

\* No standings; a typical table; a table of extremes (50 goals against per
\* game, a team that has conceded nothing).  A played game has a winner, so
\* some team has conceded once any game is played.
NoStandings == [t \in {} |-> Team(0, 0, 0, 0, 0, 0, 0, 0, 0, 0, 0)]
TypicalStandings ==
  [t \in {"BOS", "NYR"} |->
     IF t = "BOS" THEN Team(60, 170, 190, 620, 10, 25, 32, 80, 30, 90, 30)
     ELSE Team(60, 200, 170, 480, 10, 36, 28, 95, 30, 105, 30)]
ExtremeStandings ==
  [t \in {"BOS", "NYR"} |->
     IF t = "BOS" THEN Team(10, 500, 0, 1000, 10, 500, 0, 250, 5, 250, 5)
     ELSE Team(20, 0, 100, 0, 10, 0, 60, 0, 10, 0, 10)]
StandingsTables == {NoStandings, TypicalStandings, ExtremeStandings}

GoalieSavePcts == {0, 850, 940}

OddsLines ==
  {<<>>, formatAmerican(140), formatAmerican(-150), formatAmerican(-10000),
   formatAmerican(100000), <<"E", "V", "E", "N">>}

\* A calibration log of n entries: the first bad do not unmarshal, the next
\* scored carry scored = 1, the rest scored = 0; all carry pred_pct = pred.
MakeCalibLog(n, pred, scored, bad) ==
  [i \in 1..n |-> [ok |-> i > bad, PredPct |-> pred,
                   Scored |-> IF i > bad /\ i <= bad + scored THEN 1 ELSE 0]]

CalibShapes ==
  {<<0, 50, 0, 0>>, <<9, 50, 9, 0>>, <<9, 50, 2, 0>>, <<10, 50, 6, 0>>, <<10, 50, 5, 0>>,
   <<10, 60, 3, 0>>, <<10, 40, 4, 0>>, <<12, 50, 7, 0>>, <<12, 45, 5, 3>>,
   <<10, 0, 5, 0>>, <<10, 50, 0, 10>>, <<101, 50, 60, 0>>}

CalibLogs == {MakeCalibLog(sh[1], sh[2], sh[3], sh[4]) : sh \in CalibShapes}

InitPipeline ==
  /\ inGameLog \in GameLogs
  /\ inGame \in {MakeGame(sh, inGameLog) : sh \in GameShapes}
  /\ inStandings \in StandingsTables
  /\ inGoalie = 0 /\ inOdds = <<>> /\ inCalibLog = <<>> /\ calibReadOk = TRUE
  /\ stage = "start"
  /\ logisticPct = 0 /\ heuristicPct = 0 /\ modelPct = 0 /\ blendedPct = 0
  /\ scale = <<1, 1>> /\ finalPct = 0 /\ factors = <<>>

ApplyLogistic ==
  /\ stage = "start"
  /\ logisticPct' = LogisticPredict(inGame, inGameLog, inStandings)
  /\ stage' = "logistic"
  /\ UNCHANGED <<inGame, inGameLog, inStandings, inGoalie, inOdds, inCalibLog, calibReadOk,
                 heuristicPct, modelPct, blendedPct, scale, finalPct, factors>>

\* predictHeuristic, which Predict calls for a non-empty log only.
ApplyHeuristic ==
  /\ stage = "logistic"
  /\ \E sv \in GoalieSavePcts :
       /\ inGoalie' = sv
       /\ heuristicPct' = IF Len(inGameLog) = 0 THEN 0
                          ELSE predictHeuristic(inGame, inGameLog, inStandings, sv)
  /\ stage' = "heuristic"
  /\ UNCHANGED <<inGame, inGameLog, inStandings, inOdds, inCalibLog, calibReadOk,
                 logisticPct, modelPct, blendedPct, scale, finalPct, factors>>

ApplyPredict ==
  /\ stage = "heuristic"
  /\ modelPct' = Predict(inGame, inGameLog, inStandings, inGoalie)
  /\ stage' = "model"
  /\ UNCHANGED <<inGame, inGameLog, inStandings, inGoalie, inOdds, inCalibLog, calibReadOk,
                 logisticPct, heuristicPct, blendedPct, scale, finalPct, factors>>

ApplyMarketBlend ==
  /\ stage = "model"
  /\ \E line \in OddsLines, roundedDown \in BOOLEAN :
       /\ inOdds' = line
       /\ blendedPct' = MarketStep(modelPct, line, roundedDown)
  /\ stage' = "market"
  /\ UNCHANGED <<inGame, inGameLog, inStandings, inGoalie, inCalibLog, calibReadOk,
                 logisticPct, heuristicPct, modelPct, scale, finalPct, factors>>

ApplyCalibration ==
  /\ stage = "market"
  /\ \E list \in CalibLogs, readOk \in BOOLEAN, roundedDown \in BOOLEAN :
       /\ inCalibLog' = list /\ calibReadOk' = readOk
       /\ scale' = calibrationScale(list, readOk)
       /\ finalPct' = CalibrationStep(blendedPct, calibrationScale(list, readOk), roundedDown)
  /\ stage' = "calibrated"
  /\ UNCHANGED <<inGame, inGameLog, inStandings, inGoalie, inOdds,
                 logisticPct, heuristicPct, modelPct, blendedPct, factors>>

(***************************************************************************)
(* predictHeuristic on its own, over inputs at the edges of what its        *)
(* parameters admit: a log of one game, a log without a parseable date, a   *)
(* game on the day of the last one, a save percentage of 0.001 or of 1,     *)
(* and a standings table whose teams have games played but no goal against *)
(* (what decodes from a feed that drops the goalAgainst field).  Predict     *)
(* calls predictHeuristic for a non-empty log only; restFactor is also      *)
(* called by itself, as its tests do, on any log.                           *)
(***************************************************************************)
NoGoalAgainstStandings ==
  [t \in {"BOS", "NYR"} |->
     IF t = "BOS" THEN Team(1, 0, 3, 1000, 1, 0, 3, 0, 0, 0, 1)
     ELSE Team(1, 0, 2, 1000, 1, 0, 2, 0, 1, 0, 0)]

InitFactors ==
  /\ inGameLog \in {MakeLog(sh[1], sh[2]) :
                      sh \in {<<0, "cold">>, <<1, "hot">>, <<1, "cold">>, <<6, "mixed">>,
                              <<12, "streak">>, <<12, "hot">>, <<12, "cold">>}}
  /\ inGame \in {MakeGame(sh, inGameLog) :
                   sh \in {<<"BOS", TRUE, 0>>, <<"NYR", FALSE, 1>>,
                           <<"BOS", FALSE, 2>>, <<"PIT", TRUE, 3>>}}
  /\ inStandings \in StandingsTables \cup {NoGoalAgainstStandings}
  /\ inGoalie = 0 /\ inOdds = <<>> /\ inCalibLog = <<>> /\ calibReadOk = TRUE
  /\ stage = "inputs"
  /\ logisticPct = 0 /\ heuristicPct = 0 /\ modelPct = 0 /\ blendedPct = 0
  /\ scale = <<1, 1>> /\ finalPct = 0 /\ factors = <<>>

ApplyFactors ==
  /\ stage = "inputs"
  /\ Len(inGameLog) > 0
  /\ \E sv \in {0, 1, 850, 940, 999, Milli} :
       /\ inGoalie' = sv
       /\ factors' = HeuristicFactors(inGame, inGameLog, inStandings, sv)
       /\ heuristicPct' = predictHeuristic(inGame, inGameLog, inStandings, sv)
  /\ stage' = "factors"
  /\ UNCHANGED <<inGame, inGameLog, inStandings, inOdds, inCalibLog, calibReadOk,
                 logisticPct, modelPct, blendedPct, scale, finalPct>>

(***************************************************************************)
(* The predictor's tick (predictor main, run): the prediction is computed  *)
(* and written, then the reminder check runs.  Times are minutes.  Every   *)
(* Redis command and every fetch may fail; a command also fails when the   *)
(* tick's two-minute deadline has passed.                                  *)
(***************************************************************************)
UntilFirst == 75
UntilLast == 45
MaxRestarts == 1

checkInterval == 10
reminderWindow == 55
reminderWindowEnd == 65
oddsFetchWindow == 36 * 60

\* The far tick modelled: half a check interval before the odds window opens.
UntilFar == oddsFetchWindow + checkInterval \div 2

VARIABLES
  untilMin,            \* minutes from the coming tick to the next game's start
  ppc,                 \* "idle" | "remind": where the predictor's tick stands
  tickPct,             \* pct of the tick in progress
  tickOdds,            \* oddsAmerican of the tick in progress
  oddsCache,           \* ovechkin:odds:{game id}, <<>> when absent
  nextPrediction,      \* ovechkin:next_prediction, <<>> when absent
  predictionSnapshot,  \* ovechkin:prediction_snapshot:{game id}, <<>> when absent
  remindersStream,     \* ovechkin:reminders
  reminderSent,        \* the game ids with a reminder_sent:{game id} key
  restarts,            \* predictor restarts so far
  cacheInputs,         \* what ReadStandings and OpposingStarter give this evening
  \* ---- history (not program state)
  checksRun,           \* reminder checks run inside the window without a failed read or append
  tickRead             \* what the latest run() read and called

predictorVars == <<untilMin, ppc, tickPct, tickOdds, oddsCache, nextPrediction,
                   predictionSnapshot, remindersStream, reminderSent, restarts, checksRun,
                   tickRead, cacheInputs>>

TheGame == MakeGame(<<"BOS", TRUE, 1>>, MakeLog(6, "mixed"))
Payload(pct, line) == <<[GameID |-> TheGame.gameID, ProbabilityPct |-> pct, OddsAmerican |-> line]>>

\* What a tick's reads of the cache can return.
TickLogReads == {"err", "empty", "log"}
TickStandings == {NoStandings, TypicalStandings}
TickGoalies == {0, 940}
TickCalibReads == {<<MakeCalibLog(10, 50, 6, 0), TRUE>>}
FetchedOdds == {<<>>, formatAmerican(140)}

\* The rounding of int(x + 0.5) is open only where x + 0.5 is a whole number.
Roundings(exact, unit) == IF exact % unit = 0 THEN BOOLEAN ELSE {FALSE}

\* The tick ends; the ticker fires checkInterval later.
TickEnds ==
  /\ ppc' = "idle"
  /\ untilMin' = untilMin - checkInterval
  /\ tickPct' = 0 /\ tickOdds' = <<>>

\* The tick blends and calibrates the model's percentage and writes
\* next_prediction and the snapshot; the reminder check follows.
TickWrites(modelled, line, cachedNow, read) ==
  \E calib \in TickCalibReads, set1Ok \in BOOLEAN, set2Ok \in BOOLEAN :
    \E implied \in {ImpliedPctFromAmerican(line)}, scaleNow \in {calibrationScale(calib[1], calib[2])} :
      \E roundedDown \in Roundings(85 * modelled + 15 * implied[1] + 50, 100) :
        \E blended \in {MarketStep(modelled, line, roundedDown)} :
          \E roundedDown2 \in Roundings(2 * blended * scaleNow[1] + scaleNow[2],
                                        2 * scaleNow[2]) :
            \E pct \in {CalibrationStep(blended, scaleNow, roundedDown2)} :
              /\ tickPct' = pct /\ tickOdds' = line
              /\ oddsCache' = cachedNow
              /\ nextPrediction' = IF set1Ok THEN Payload(pct, line) ELSE nextPrediction
              /\ predictionSnapshot' = IF set1Ok /\ set2Ok THEN Payload(pct, line)
                                       ELSE predictionSnapshot
              /\ ppc' = "remind"
              /\ tickRead' = [read EXCEPT !.set1Ok = set1Ok]
              /\ UNCHANGED <<untilMin, remindersStream, reminderSent, restarts,
                             checksRun, cacheInputs>>

\* What run() has read when the game log is in hand.
NoRead ==
  [game |-> FALSE, log |-> "none", logReads |-> 0, hadCache |-> FALSE,
   apiKeySet |-> FALSE, apiCalled |-> FALSE, set1Ok |-> FALSE]

\* The odds of the tick: the cached line if the GET returns one, or a fetched
\* one (cached when the SET succeeds) if the game is within oddsFetchWindow
\* and a key is configured.  The errors of the GET and of the SET are dropped.
TickOddsThenWrites(modelled, read) ==
  \E getOk \in BOOLEAN, apiKeySet \in BOOLEAN :
    LET cached == IF getOk THEN oddsCache ELSE <<>>
        readOdds == [read EXCEPT !.hadCache = oddsCache # <<>>, !.apiKeySet = apiKeySet]
    IN  IF cached # <<>>
          THEN TickWrites(modelled, cached, oddsCache, readOdds)
          ELSE IF untilMin <= oddsFetchWindow /\ apiKeySet
                 THEN \E line \in FetchedOdds, setOk \in BOOLEAN :
                        TickWrites(modelled, line,
                                   IF line # <<>> /\ setOk THEN line ELSE oddsCache,
                                   [readOdds EXCEPT !.apiCalled = TRUE])
                 ELSE TickWrites(modelled, <<>>, oddsCache, readOdds)

TickSkipped(read) ==
  /\ TickEnds
  /\ tickRead' = read
  /\ UNCHANGED <<oddsCache, nextPrediction, predictionSnapshot, remindersStream,
                 reminderSent, restarts, checksRun, cacheInputs>>

\* run()'s reads of the game log: one, and one more a minute later if the
\* first found the log missing or empty.
LogReads(firstRead) == IF firstRead = "empty" THEN 2 ELSE 1
LogRead(firstRead, retryRead) == IF firstRead = "empty" THEN retryRead ELSE firstRead

\* run()'s early returns: no next game; the log unreadable; the log still
\* missing or unreadable at the second read.
SkipsTickOnlyWithoutGame(nextGameOk, firstRead, retryRead) == ~nextGameOk
SkipsTickOnFirstEmpty(nextGameOk, firstRead, retryRead) == ~nextGameOk \/ firstRead # "log"
SkipsTick(nextGameOk, firstRead, retryRead) ==
  ~nextGameOk \/ firstRead = "err" \/ (firstRead = "empty" /\ retryRead # "log")

\* run(), up to WriteNextPrediction.
TickPredict ==
  /\ ppc = "idle"
  /\ \/ untilMin >= UntilLast /\ untilMin <= UntilFirst
     \/ untilMin = UntilFar
  /\ \E nextGameOk \in BOOLEAN, firstRead \in TickLogReads, retryRead \in TickLogReads :
       LET read == [NoRead EXCEPT
                      !.game = nextGameOk,
                      !.log = IF nextGameOk THEN LogRead(firstRead, retryRead) ELSE "none",
                      !.logReads = IF nextGameOk THEN LogReads(firstRead) ELSE 0]
       IN  IF SkipsTick(nextGameOk, firstRead, retryRead)
             THEN TickSkipped(read)
             ELSE \E modelled \in {Predict(TheGame,
                                           IF read.log = "log" THEN MakeLog(6, "mixed")
                                           ELSE <<>>,
                                           cacheInputs.standings,
                                           cacheInputs.goalieSavePct)} :
                    TickOddsThenWrites(modelled, read)

\* Producer.AlreadySent: "err" when the GET fails, else whether the key exists.
AlreadySent(gameID, getOk) ==
  IF ~getOk THEN "err" ELSE IF gameID \in reminderSent THEN "sent" ELSE "unsent"

\* The entry XADD appends: the payload under a stream id, which is the time
\* of the append (here the minutes left until the game starts).
ReminderEntry(pct, line, at) ==
  [ID |-> at, GameID |-> TheGame.gameID, ProbabilityPct |-> pct, OddsAmerican |-> line]

\* Producer.Publish: XADD, then SET of the marker; an error of the XADD
\* returns before the SET.
Publish(pct, line, xaddOk, setOk) ==
  /\ remindersStream' = IF xaddOk
                          THEN Append(remindersStream, ReminderEntry(pct, line, untilMin))
                          ELSE remindersStream
  /\ reminderSent' = IF xaddOk /\ setOk THEN reminderSent \cup {TheGame.gameID}
                     ELSE reminderSent

\* run()'s window test: the reminder is skipped outside 55 to 65 minutes.
OutsideWindowNoLowerEnd(until) == until > reminderWindowEnd
OutsideWindow(until) == until < reminderWindow \/ until > reminderWindowEnd

\* run(), from the window test on.
TickReminder ==
  /\ ppc = "remind"
  /\ TickEnds
  /\ tickRead' = NoRead
  /\ UNCHANGED <<oddsCache, nextPrediction, predictionSnapshot, restarts, cacheInputs>>
  /\ IF OutsideWindow(untilMin)
       THEN UNCHANGED <<remindersStream, reminderSent, checksRun>>
       ELSE \E getOk \in BOOLEAN, xaddOk \in BOOLEAN, setOk \in BOOLEAN :
              LET sent == AlreadySent(TheGame.gameID, getOk)
              IN  /\ IF sent = "unsent" THEN Publish(tickPct, tickOdds, xaddOk, setOk)
                     ELSE UNCHANGED <<remindersStream, reminderSent>>
                  /\ checksRun' = IF sent = "sent" \/ (sent = "unsent" /\ xaddOk)
                                    THEN checksRun + 1 ELSE checksRun

\* The predictor is restarted: the tick in progress is lost and run() is
\* called at once.
PredictorRestart ==
  /\ restarts < MaxRestarts
  /\ untilMin >= UntilLast /\ untilMin <= UntilFirst
  /\ restarts' = restarts + 1
  /\ ppc' = "idle" /\ tickPct' = 0 /\ tickOdds' = <<>>
  /\ UNCHANGED <<untilMin, oddsCache, nextPrediction, predictionSnapshot,
                 remindersStream, reminderSent, checksRun, cacheInputs>>
  /\ tickRead' = NoRead

\* The predictor is down from a far tick until UntilFirst minutes before the
\* game: the cached odds (12 hours) and next_prediction (1 hour) have expired
\* by then, the snapshot (7 days) has not.
PredictorDown ==
  /\ untilMin > UntilFirst
  /\ untilMin' = UntilFirst
  /\ ppc' = "idle" /\ tickPct' = 0 /\ tickOdds' = <<>>
  /\ oddsCache' = <<>> /\ nextPrediction' = <<>>
  /\ tickRead' = NoRead
  /\ UNCHANGED <<predictionSnapshot, remindersStream, reminderSent, restarts, checksRun,
                 cacheInputs>>

InitPredictor ==
  /\ untilMin \in {UntilFirst - checkInterval \div 2, UntilFirst, UntilFar}
  /\ ppc = "idle" /\ tickPct = 0 /\ tickOdds = <<>>
  /\ oddsCache = <<>> /\ nextPrediction = <<>> /\ predictionSnapshot = <<>>
  /\ remindersStream = <<>> /\ reminderSent = {}
  /\ restarts = 0 /\ checksRun = 0 /\ tickRead = NoRead
  /\ cacheInputs \in [standings : TickStandings, goalieSavePct : TickGoalies]

PredictorIdle ==
  /\ untilMin = UntilFirst
  /\ ppc = "off" /\ tickPct = 0 /\ tickOdds = <<>>
  /\ oddsCache = <<>> /\ nextPrediction = <<>> /\ predictionSnapshot = <<>>
  /\ remindersStream = <<>> /\ reminderSent = {}
  /\ restarts = 0 /\ checksRun = 0 /\ tickRead = NoRead
  /\ cacheInputs = [standings |-> NoStandings, goalieSavePct |-> 0]

(***************************************************************************)
(* The evaluator: run() every 30 minutes against the last completed game.  *)
(***************************************************************************)
MaxCompleted == 2
MaxSummaries == 3

VARIABLES
  lastCompleted,       \* id of the most recent finished game on the schedule, 0 if none
  boxGoals,            \* Ovechkin's goals in the boxscore of each finished game
  lastReportedGame,    \* ovechkin:evaluator_last_reported_game, 0 when the key is absent
  postGameStream,      \* ovechkin:post_game
  calibrationLog       \* ovechkin:calibration:log

evaluatorVars == <<lastCompleted, boxGoals, lastReportedGame, postGameStream, calibrationLog>>

CompletedIds == 1..MaxCompleted
SnapshotPcts == {0, 35}

\* A game finishes.
GameCompletes ==
  /\ lastCompleted < MaxCompleted
  /\ lastCompleted' = lastCompleted + 1
  /\ \E goals \in 0..1 : boxGoals' = [boxGoals EXCEPT ![lastCompleted + 1] = goals]
  /\ UNCHANGED <<lastReportedGame, postGameStream, calibrationLog>>

\* The 30-day TTL of the last-reported key runs out.
LastReportedExpires ==
  /\ lastReportedGame # 0
  /\ lastReportedGame' = 0
  /\ UNCHANGED <<lastCompleted, boxGoals, postGameStream, calibrationLog>>

\* run(): ping, last completed game, last-reported test, snapshot, boxscore,
\* XADD of the summary, SET of the last-reported key.
EvaluatorRun ==
  \E pingOk \in BOOLEAN, scheduleOk \in BOOLEAN, getOk \in BOOLEAN, predPct \in SnapshotPcts,
     stats \in {"err", "nil", "found"}, xaddOk \in BOOLEAN, setOk \in BOOLEAN :
    LET lastReported == IF getOk THEN lastReportedGame ELSE 0
        published == /\ pingOk /\ scheduleOk /\ lastCompleted # 0
                     /\ lastReported < lastCompleted
                     /\ stats = "found" /\ xaddOk
    IN  /\ Len(postGameStream) < MaxSummaries
        /\ postGameStream' =
             IF published
               THEN Append(postGameStream, [GameID |-> lastCompleted, PredPct |-> predPct,
                                            Scored |-> boxGoals[lastCompleted] > 0])
               ELSE postGameStream
        /\ lastReportedGame' = IF published /\ setOk THEN lastCompleted ELSE lastReportedGame
        /\ UNCHANGED <<lastCompleted, boxGoals, calibrationLog>>

InitEvaluator ==
  /\ lastCompleted = 0
  /\ boxGoals = [g \in CompletedIds |-> 0]
  /\ lastReportedGame = 0
  /\ postGameStream = <<>>
  /\ calibrationLog = <<>>

(***************************************************************************)
(* The announcer: one consumer loop per stream (goals, reminders,          *)
(* post-game), each reading its stream through the consumer group with     *)
(* XREADGROUP ">", posting the batch and acknowledging it.  The three      *)
(* loops have the same shape; a behaviour follows the loop of one stream.  *)
(***************************************************************************)
MaxEntries == 2
ReadCount == 10

VARIABLES
  consumed,            \* the stream whose loop is followed
  entries,             \* number of entries appended to it (ids 1..entries)
  kinds,               \* what each entry holds: a payload that parses, or a malformed one
  lastDelivered,       \* the group's last-delivered id
  pendingIds,          \* the group's pending entries list
  apc,                 \* "stopped", "read", "post", "ack"
  batch,               \* ids returned by the read of the iteration in progress
  payloads,            \* payloads returned by that read
  \* ---- history (not program state)
  handed,              \* ids the Discord post step was called for
  postedOk,            \* ids whose post succeeded
  ackResult            \* the latest XACK: "none", "ok" or "failed"

announcerVars == <<consumed, entries, kinds, lastDelivered, pendingIds, apc, batch, payloads,
                   handed, postedOk, ackResult>>

Streams == {"ovechkin:goals", "ovechkin:reminders", "ovechkin:post_game"}
Min(a, b) == IF a < b THEN a ELSE b
PayloadKinds == {"valid", "missing payload key", "invalid JSON"}

\* The payloads a read returns for the messages lo..hi.  ReadMessages and
\* ReadPostGames skip a message whose payload field is missing or does not
\* parse; ReadReminders ignores both errors and appends the zero payload.
DecodePayloadsKeepAll(stream, lo, hi) ==
  [i \in 1..(hi - lo + 1) |-> [From |-> lo + i - 1, Zero |-> kinds[lo + i - 1] # "valid"]]
DecodePayloads(stream, lo, hi) ==
  LET all == [i \in 1..(hi - lo + 1) |->
                [From |-> lo + i - 1, Zero |-> kinds[lo + i - 1] # "valid"]]
      Parsed(p) == ~p.Zero
  IN  IF stream = "ovechkin:reminders" THEN all ELSE SelectSeq(all, Parsed)

\* A producer's XADD is accepted by the stream.
EntryAppended ==
  /\ entries < MaxEntries
  /\ entries' = entries + 1
  /\ \E kind \in PayloadKinds : kinds' = Append(kinds, kind)
  /\ UNCHANGED <<consumed, lastDelivered, pendingIds, apc, batch, payloads, handed, postedOk,
                 ackResult>>

AnnouncerStart ==
  /\ apc = "stopped"
  /\ apc' = "read"
  /\ UNCHANGED <<consumed, entries, kinds, lastDelivered, pendingIds, batch, payloads, handed,
                 postedOk, ackResult>>

\* The process ends (signal, crash, redeploy) wherever the loop is.
AnnouncerStop ==
  /\ apc # "stopped"
  /\ apc' = "stopped"
  /\ batch' = {} /\ payloads' = <<>>
  /\ UNCHANGED <<consumed, entries, kinds, lastDelivered, pendingIds, handed, postedOk,
                 ackResult>>

\* ReadMessages: XREADGROUP ">" returns up to ReadCount entries never
\* delivered to the group and puts them on the pending list; an error or an
\* empty reply starts the iteration again.
ReadMessages ==
  /\ apc = "read"
  /\ \E readOk \in BOOLEAN :
       LET upTo == Min(entries, lastDelivered + ReadCount)
           ids == IF readOk THEN (lastDelivered + 1)..upTo ELSE {}
       IN  /\ batch' = ids
           /\ payloads' = IF readOk THEN DecodePayloads(consumed, lastDelivered + 1, upTo)
                           ELSE <<>>
           /\ pendingIds' = pendingIds \cup ids
           /\ lastDelivered' = IF readOk THEN upTo ELSE lastDelivered
           /\ apc' = IF ids = {} THEN "read" ELSE "post"
  /\ UNCHANGED <<consumed, entries, kinds, handed, postedOk, ackResult>>

\* The post step is called for every payload the read returned; a failure
\* is logged.
PostBatch ==
  /\ apc = "post"
  /\ LET posted == {payloads[i].From : i \in DOMAIN payloads}
     IN  \E succeeded \in SUBSET posted :
           /\ handed' = handed \cup posted
           /\ postedOk' = postedOk \cup succeeded
  /\ apc' = "ack"
  /\ UNCHANGED <<consumed, entries, kinds, lastDelivered, pendingIds, batch, payloads,
                 ackResult>>

\* The ids the loop passes to Ack: all the read returned; or only those
\* whose post succeeded.
AckedIdsPostedOnly(ids) == ids \cap postedOk
AckedIds(ids) == ids

\* Ack: XACK of all ids of the batch, whatever the posts returned; its
\* failure is logged.
Ack ==
  /\ apc = "ack"
  /\ \E ackOk \in BOOLEAN :
       /\ pendingIds' = IF ackOk THEN pendingIds \ AckedIds(batch) ELSE pendingIds
       /\ ackResult' = IF ackOk THEN "ok" ELSE "failed"
  /\ batch' = {} /\ payloads' = <<>>
  /\ apc' = "read"
  /\ UNCHANGED <<consumed, entries, kinds, lastDelivered, handed, postedOk>>

InitAnnouncer ==
  /\ consumed \in Streams
  /\ entries = 0 /\ kinds = <<>> /\ lastDelivered = 0 /\ pendingIds = {}
  /\ apc = "stopped" /\ batch = {} /\ payloads = <<>>
  /\ handed = {} /\ postedOk = {} /\ ackResult = "none"

AnnouncerIdle ==
  /\ consumed = "ovechkin:goals"
  /\ entries = 0 /\ kinds = <<>> /\ lastDelivered = 0 /\ pendingIds = {}
  /\ apc = "stopped" /\ batch = {} /\ payloads = <<>>
  /\ handed = {} /\ postedOk = {} /\ ackResult = "none"

(***************************************************************************)
(* Process life cycle: startup checks, the loops of a running process and  *)
(* its shutdown on SIGTERM/SIGINT.  A behaviour follows one service.       *)
(***************************************************************************)
VARIABLES
  service,             \* the service whose process is followed
  redisUp,             \* Redis answers
  loopAt,              \* position of each loop of the process
  exitStatus,          \* "none" while the process lives, else "zero" or "nonzero"
  signalled,           \* SIGTERM or SIGINT was delivered (the context is cancelled)
  \* ---- history (not program state)
  lastStep,            \* outcome of the last loop iteration: "none", "ok", "failed"
  startedUnreachable,  \* Redis was unreachable when the process started
  signalAt             \* the loops' positions when the signal arrived

lifecycleVars == <<service, redisUp, loopAt, exitStatus, signalled, lastStep,
                   startedUnreachable, signalAt>>

Services == {"ingestor", "predictor", "collector", "announcer", "evaluator"}
Loops == {"main", "reminders", "post_game", "status"}
NoLoops == [l \in Loops |-> "absent"]

\* main(): which services ping Redis before their loop, which also need an
\* upstream (NHL career total, Discord gateway), which cancel on a signal.
PingsAtStart(svc) == svc # "evaluator"
FetchesAtStart(svc) == svc \in {"ingestor", "announcer"}
HandlesSignal(svc) == svc # "evaluator"

\* Loops that wait in a select on ctx.Done() and a ticker; the announcer's
\* consumer loops select on ctx.Done() with a default branch instead.
IsTickerLoop(l) == IF service = "announcer" THEN l = "status" ELSE l = "main"

\* ctx.Done() is ready in the select at the top of a loop.
DoneReadyNever == FALSE
DoneReady == signalled

RedisFlips ==
  /\ redisUp' = ~redisUp
  /\ UNCHANGED <<service, loopAt, exitStatus, signalled, lastStep, startedUnreachable,
                 signalAt>>

\* main() up to its loop.
ProcessStart ==
  /\ loopAt["main"] = "notStarted"
  /\ startedUnreachable' = ~redisUp
  /\ \E upstreamOk \in BOOLEAN :
       IF \/ PingsAtStart(service) /\ ~redisUp
          \/ FetchesAtStart(service) /\ ~upstreamOk
         THEN /\ exitStatus' = "nonzero"
              /\ loopAt' = [loopAt EXCEPT !["main"] = "returned"]
         ELSE /\ exitStatus' = exitStatus
              /\ loopAt' = [l \in Loops |->
                              IF l = "main" \/ service = "announcer" THEN "select"
                              ELSE "absent"]
  /\ UNCHANGED <<service, redisUp, signalled, lastStep, signalAt>>

SignalDelivered ==
  /\ HandlesSignal(service)
  /\ exitStatus = "none" /\ loopAt["main"] # "notStarted" /\ ~signalled
  /\ signalled' = TRUE
  /\ signalAt' = loopAt
  /\ UNCHANGED <<service, redisUp, loopAt, exitStatus, lastStep, startedUnreachable>>

\* The select takes the ctx.Done() case: the loop returns; main's return
\* ends the process and with it the other loops.
LoopReturns(l) ==
  /\ loopAt[l] = "select" /\ DoneReady
  /\ IF l = "main"
       THEN /\ loopAt' = [k \in Loops |-> IF loopAt[k] = "absent" THEN "absent"
                                           ELSE "returned"]
            /\ exitStatus' = "zero"
       ELSE /\ loopAt' = [loopAt EXCEPT ![l] = "returned"]
            /\ exitStatus' = exitStatus
  /\ UNCHANGED <<service, redisUp, signalled, lastStep, startedUnreachable, signalAt>>

\* The select takes the ticker case (which can be ready together with
\* ctx.Done()) or, in a consumer loop, the default branch.
LoopEnters(l) ==
  /\ loopAt[l] = "select"
  /\ IsTickerLoop(l) \/ ~DoneReady
  /\ loopAt' = [loopAt EXCEPT ![l] = "work"]
  /\ UNCHANGED <<service, redisUp, exitStatus, signalled, lastStep, startedUnreachable,
                 signalAt>>

\* One iteration: a tick's run, or a blocking stream read with post and ack.
\* A failed step is logged and the loop goes on; the ingestor may enter its
\* 8-second wait for the goalie of a goal.
LoopIterates(l) ==
  /\ loopAt[l] = "work"
  /\ \E stepOk \in BOOLEAN, waits \in BOOLEAN :
       /\ lastStep' = IF stepOk /\ redisUp THEN "ok" ELSE "failed"
       /\ loopAt' = [loopAt EXCEPT ![l] = IF service = "ingestor" /\ waits
                                           THEN "retryWait" ELSE "select"]
  /\ UNCHANGED <<service, redisUp, exitStatus, signalled, startedUnreachable, signalAt>>

\* The ingestor's wait ends, by the timer or by ctx.Done(); the emit follows.
RetryWaitEnds ==
  /\ loopAt["main"] = "retryWait"
  /\ \E emitOk \in BOOLEAN :
       lastStep' = IF emitOk /\ redisUp /\ ~signalled THEN "ok" ELSE "failed"
  /\ loopAt' = [loopAt EXCEPT !["main"] = "select"]
  /\ UNCHANGED <<service, redisUp, exitStatus, signalled, startedUnreachable, signalAt>>

InitLifecycle ==
  /\ service \in Services
  /\ redisUp \in BOOLEAN
  /\ loopAt = [NoLoops EXCEPT !["main"] = "notStarted"]
  /\ exitStatus = "none" /\ signalled = FALSE
  /\ lastStep = "none" /\ startedUnreachable = FALSE /\ signalAt = NoLoops

LifecycleIdle ==
  /\ service = "ingestor"
  /\ redisUp = TRUE
  /\ loopAt = [NoLoops EXCEPT !["main"] = "notStarted"]
  /\ exitStatus = "none" /\ signalled = FALSE
  /\ lastStep = "none" /\ startedUnreachable = FALSE /\ signalAt = NoLoops

(***************************************************************************)
(* The collector (collector main, run; cache.WriteGameLog): every cycle    *)
(* fetches the game log of each season of gameLogSeasons, writes the       *)
(* seasons it got as one value, then fetches and writes the standings.     *)
(* An entry of the log is <<season, number of the game in the season>>.    *)
(* Time is counted in cycles: the game log's TTL of 12 hours is two cycles *)
(* of the default 6 hours, the standings' TTL of one hour less than one.   *)
(***************************************************************************)
MaxCurrentSeasonGames == 2
PastSeasonGames == 1

GameLogTTLCycles == 2

VARIABLES
  upstreamGames,    \* games of the current season the NHL API lists so far
  cachedGameLog,    \* ovechkin:game_log, <<>> when absent
  gameLogAge,       \* cycles since the key was last written
  cachedStandings   \* whether standings:now is present

collectorVars == <<upstreamGames, cachedGameLog, gameLogAge, cachedStandings>>

\* gameLogSeasons, by position; the last is the current season.
gameLogSeasons == <<1, 2, 3>>

\* What nhlClient.GameLog returns for a season.
SeasonGameLog(season) ==
  [i \in 1..(IF season = Len(gameLogSeasons) THEN upstreamGames ELSE PastSeasonGames) |->
     <<season, i>>]

\* run's allLog: the seasons' logs in order, a failed season left out.
RECURSIVE AllLog(_, _)
AllLog(fetched, k) ==
  IF k = 0 THEN <<>>
  ELSE AllLog(fetched, k - 1)
         \o (IF fetched[k] THEN SeasonGameLog(gameLogSeasons[k]) ELSE <<>>)

\* The current season's game log gains a game.
UpstreamGamePlayed ==
  /\ upstreamGames < MaxCurrentSeasonGames
  /\ upstreamGames' = upstreamGames + 1
  /\ UNCHANGED <<cachedGameLog, gameLogAge, cachedStandings>>

\* One cycle of run.
CollectorRun ==
  /\ \E fetched \in [1..Len(gameLogSeasons) -> BOOLEAN], setOk \in BOOLEAN :
       LET allLog == AllLog(fetched, Len(gameLogSeasons))
       IN  IF Len(allLog) > 0 /\ setOk
             THEN cachedGameLog' = allLog /\ gameLogAge' = 0
             ELSE /\ cachedGameLog' = cachedGameLog
                  /\ gameLogAge' = IF gameLogAge < GameLogTTLCycles
                                     THEN gameLogAge + 1 ELSE gameLogAge
  /\ \E standingsOk, setOk \in BOOLEAN :
       cachedStandings' = IF standingsOk /\ setOk THEN TRUE ELSE cachedStandings
  /\ UNCHANGED upstreamGames

\* ovechkin:game_log expires GameLogTTL after its last write.
GameLogExpires ==
  /\ cachedGameLog # <<>>
  /\ gameLogAge >= GameLogTTLCycles
  /\ cachedGameLog' = <<>>
  /\ UNCHANGED <<upstreamGames, gameLogAge, cachedStandings>>

\* standings:now expires StandingsTTL after its write, before the next cycle.
StandingsExpire ==
  /\ cachedStandings
  /\ cachedStandings' = FALSE
  /\ UNCHANGED <<upstreamGames, cachedGameLog, gameLogAge>>

InitCollector ==
  /\ upstreamGames = 0
  /\ cachedGameLog = <<>> /\ gameLogAge = 0
  /\ cachedStandings = FALSE

(***************************************************************************)
(* predictor/internal/goalie: Client.OpposingStarter.  The depth-chart     *)
(* page gives a name or nothing; the roster, the boxscore and the player   *)
(* landing page are NHL API requests that may fail.  Goalies are player    *)
(* ids; DepthChartGoalie is the one the page names when the name is on the *)
(* opponent's roster.                                                      *)
(***************************************************************************)
DepthChartGoalie == 31

VARIABLES
  goalieIn,    \* what the sources hold for the game when OpposingStarter runs
  goalieOut    \* OpposingStarter's result and the requests it made, <<>> before

goalieVars == <<goalieIn, goalieOut>>

\* resolveGoalieByName: the player id, 0 when the roster request fails or
\* the name matches no goalie of the roster.
resolveGoalieByName(in) ==
  IF in.rosterOk /\ in.scraped = "on roster" THEN DepthChartGoalie ELSE 0

\* The first goalie of the list flagged as starter, 0 when none is.
RECURSIVE FirstStarter(_, _)
FirstStarter(goalies, i) ==
  IF i > Len(goalies) THEN 0
  ELSE IF goalies[i].Starter THEN goalies[i].PlayerID
  ELSE FirstStarter(goalies, i + 1)

\* The boxscore's goalie when only the starter flag counts.
BoxscoreGoalieFlaggedOnly(goalies) == FirstStarter(goalies, 1)

\* The goalie opposingStarterFromBoxscore takes from the opponent's list:
\* the first flagged starter, else the first goalie listed, else 0.
BoxscoreGoalie(goalies) ==
  IF FirstStarter(goalies, 1) # 0 THEN FirstStarter(goalies, 1)
  ELSE IF Len(goalies) > 0 THEN goalies[1].PlayerID
  ELSE 0

NoInfo(err, calls) == [PlayerID |-> 0, SavePct |-> 0, err |-> err, calls |-> calls]

opposingStarterFromBoxscore(in, calls) ==
  IF in.boxscore = "error" THEN NoInfo(TRUE, Append(calls, "boxscore"))
  ELSE IF in.boxscore = "404" THEN NoInfo(FALSE, Append(calls, "boxscore"))
  ELSE IF BoxscoreGoalie(in.goalies) = 0 THEN NoInfo(FALSE, Append(calls, "boxscore"))
  ELSE [PlayerID |-> BoxscoreGoalie(in.goalies),
        SavePct |-> IF in.savePct <= 0 THEN 0 ELSE in.savePct,
        err |-> FALSE, calls |-> calls \o <<"boxscore", "landing">>]

\* OpposingStarter: the Info it returns (PlayerID 0 for nil), its error and
\* the requests made on the way.
OpposingStarter(in) ==
  IF in.scraped # ""
    THEN IF resolveGoalieByName(in) # 0
           THEN [PlayerID |-> resolveGoalieByName(in),
                 SavePct |-> IF in.savePct <= 0 THEN 0 ELSE in.savePct,
                 err |-> FALSE, calls |-> <<"puckpedia", "roster", "landing">>]
           ELSE opposingStarterFromBoxscore(in, <<"puckpedia", "roster">>)
    ELSE opposingStarterFromBoxscore(in, <<"puckpedia">>)

InitGoalie ==
  /\ goalieIn \in
       [scraped : {"", "on roster", "not on roster"},
        rosterOk : BOOLEAN,
        boxscore : {"error", "404", "200"},
        \* the opponent's goalies in the boxscore, in order
        goalies : {<<>>,
                   <<[PlayerID |-> 32, Starter |-> TRUE]>>,
                   <<[PlayerID |-> 32, Starter |-> FALSE], [PlayerID |-> 33, Starter |-> TRUE]>>,
                   <<[PlayerID |-> 32, Starter |-> FALSE], [PlayerID |-> 33, Starter |-> FALSE]>>},
        \* playerSavePct's answer in thousandths, -1 for an error
        savePct : {0 - 1, 0, 910}]
  /\ goalieOut = <<>>

ApplyOpposingStarter ==
  /\ goalieOut = <<>>
  /\ goalieOut' = OpposingStarter(goalieIn)
  /\ UNCHANGED goalieIn

GoalieIdle ==
  /\ goalieIn = [scraped |-> "", rosterOk |-> FALSE, boxscore |-> "404",
                 goalies |-> <<>>, savePct |-> 0]
  /\ goalieOut = <<>>

(***************************************************************************)
(* The specifications.                                                     *)
(*   Spec          the ingestor(s), the live score feed and Redis          *)
(*   SpecPipeline  the prediction pipeline on drawn inputs                 *)
(*   SpecFactors   predictHeuristic's factors on inputs at the edges       *)
(*   SpecPredictor the predictor's ticks: prediction and reminder          *)
(*   SpecEvaluator the evaluator's runs                                    *)
(*   SpecAnnouncer the announcer's consumer loop on one stream             *)
(*   SpecLifecycle the start, loops and shutdown of one service's process  *)
(*   SpecCollector the collector's cycles and the two keys it writes       *)
(*   SpecGoalie    OpposingStarter on what its sources may hold            *)
(***************************************************************************)
vars == <<ingestorVars, pipelineVars, predictorVars, evaluatorVars, announcerVars, lifecycleVars, collectorVars, goalieVars>>

PipelineIdle ==
  /\ inGame = MakeGame(<<"BOS", TRUE, 1>>, <<>>) /\ inGameLog = <<>>
  /\ inStandings = NoStandings
  /\ inGoalie = 0 /\ inOdds = <<>> /\ inCalibLog = <<>> /\ calibReadOk = TRUE
  /\ stage = "off"
  /\ logisticPct = 0 /\ heuristicPct = 0 /\ modelPct = 0 /\ blendedPct = 0
  /\ scale = <<1, 1>> /\ finalPct = 0 /\ factors = <<>>

Init ==
  InitIngestor /\ PipelineIdle /\ PredictorIdle /\ InitEvaluator /\ AnnouncerIdle /\ LifecycleIdle /\ InitCollector /\ GoalieIdle
notIngestorVars == <<pipelineVars, predictorVars, evaluatorVars, announcerVars, lifecycleVars, collectorVars, goalieVars>>
Next ==
  \/ GameListed /\ UNCHANGED notIngestorVars
  \/ GameAdvances /\ UNCHANGED notIngestorVars
  \/ OvechkinScores /\ UNCHANGED notIngestorVars
  \/ OtherScores /\ UNCHANGED notIngestorVars
  \/ ApiCatchesUp /\ UNCHANGED notIngestorVars
  \/ \E g \in GameIds : SeenGoalsExpire(g) /\ UNCHANGED notIngestorVars
  \/ \E p \in Ingestors : IngestorStart(p) /\ UNCHANGED notIngestorVars
  \/ \E p \in Ingestors : PollTick(p) /\ UNCHANGED notIngestorVars
  \/ \E p \in Ingestors : GoalLoopMark(p) /\ UNCHANGED notIngestorVars
  \/ \E p \in Ingestors : GoalLoopEmit(p) /\ UNCHANGED notIngestorVars
  \/ \E p \in Ingestors : IngestorStop(p) /\ UNCHANGED notIngestorVars
Spec == Init /\ [][Next]_vars

InitSpecPipeline ==
  /\ InitPipeline /\ IngestorIdle /\ PredictorIdle /\ InitEvaluator /\ AnnouncerIdle
  /\ LifecycleIdle /\ InitCollector /\ GoalieIdle
notPipelineVars == <<ingestorVars, predictorVars, evaluatorVars, announcerVars, lifecycleVars, collectorVars, goalieVars>>
NextPipeline ==
  \/ ApplyLogistic /\ UNCHANGED notPipelineVars
  \/ ApplyHeuristic /\ UNCHANGED notPipelineVars
  \/ ApplyPredict /\ UNCHANGED notPipelineVars
  \/ ApplyMarketBlend /\ UNCHANGED notPipelineVars
  \/ ApplyCalibration /\ UNCHANGED notPipelineVars
SpecPipeline == InitSpecPipeline /\ [][NextPipeline]_vars

ApplyRestFactor ==
  /\ stage = "inputs"
  /\ factors' = [restFactor |-> restFactor(inGame, inGameLog)]
  /\ stage' = "rest"
  /\ UNCHANGED <<inGame, inGameLog, inStandings, inGoalie, inOdds, inCalibLog, calibReadOk,
                 logisticPct, heuristicPct, modelPct, blendedPct, scale, finalPct>>

InitSpecFactors ==
  /\ InitFactors /\ IngestorIdle /\ PredictorIdle /\ InitEvaluator /\ AnnouncerIdle
  /\ LifecycleIdle /\ InitCollector /\ GoalieIdle
NextFactors ==
  \/ ApplyFactors /\ UNCHANGED notPipelineVars
  \/ ApplyRestFactor /\ UNCHANGED notPipelineVars
SpecFactors == InitSpecFactors /\ [][NextFactors]_vars

InitSpecPredictor ==
  /\ InitPredictor /\ IngestorIdle /\ PipelineIdle /\ InitEvaluator /\ AnnouncerIdle
  /\ LifecycleIdle /\ InitCollector /\ GoalieIdle
notPredictorVars == <<ingestorVars, pipelineVars, evaluatorVars, announcerVars, lifecycleVars, collectorVars, goalieVars>>
NextPredictor ==
  \/ TickPredict /\ UNCHANGED notPredictorVars
  \/ TickReminder /\ UNCHANGED notPredictorVars
  \/ PredictorRestart /\ UNCHANGED notPredictorVars
  \/ PredictorDown /\ UNCHANGED notPredictorVars
SpecPredictor == InitSpecPredictor /\ [][NextPredictor]_vars

InitSpecEvaluator ==
  /\ InitEvaluator /\ IngestorIdle /\ PipelineIdle /\ PredictorIdle /\ AnnouncerIdle
  /\ LifecycleIdle /\ InitCollector /\ GoalieIdle
notEvaluatorVars == <<ingestorVars, pipelineVars, predictorVars, announcerVars, lifecycleVars, collectorVars, goalieVars>>
NextEvaluator ==
  \/ GameCompletes /\ UNCHANGED notEvaluatorVars
  \/ LastReportedExpires /\ UNCHANGED notEvaluatorVars
  \/ EvaluatorRun /\ UNCHANGED notEvaluatorVars
SpecEvaluator == InitSpecEvaluator /\ [][NextEvaluator]_vars

InitSpecAnnouncer ==
  /\ InitAnnouncer /\ IngestorIdle /\ PipelineIdle /\ PredictorIdle /\ InitEvaluator
  /\ LifecycleIdle /\ InitCollector /\ GoalieIdle
notAnnouncerVars == <<ingestorVars, pipelineVars, predictorVars, evaluatorVars, lifecycleVars, collectorVars, goalieVars>>
NextAnnouncer ==
  \/ EntryAppended /\ UNCHANGED notAnnouncerVars
  \/ AnnouncerStart /\ UNCHANGED notAnnouncerVars
  \/ AnnouncerStop /\ UNCHANGED notAnnouncerVars
  \/ ReadMessages /\ UNCHANGED notAnnouncerVars
  \/ PostBatch /\ UNCHANGED notAnnouncerVars
  \/ Ack /\ UNCHANGED notAnnouncerVars
SpecAnnouncer == InitSpecAnnouncer /\ [][NextAnnouncer]_vars

InitSpecLifecycle ==
  /\ InitLifecycle /\ IngestorIdle /\ PipelineIdle /\ PredictorIdle /\ InitEvaluator
  /\ AnnouncerIdle /\ InitCollector /\ GoalieIdle
notLifecycleVars ==
  <<ingestorVars, pipelineVars, predictorVars, evaluatorVars, announcerVars, collectorVars, goalieVars>>
NextLifecycle ==
  \/ RedisFlips /\ UNCHANGED notLifecycleVars
  \/ ProcessStart /\ UNCHANGED notLifecycleVars
  \/ SignalDelivered /\ UNCHANGED notLifecycleVars
  \/ \E l \in Loops : LoopReturns(l) /\ UNCHANGED notLifecycleVars
  \/ \E l \in Loops : LoopEnters(l) /\ UNCHANGED notLifecycleVars
  \/ \E l \in Loops : LoopIterates(l) /\ UNCHANGED notLifecycleVars
  \/ RetryWaitEnds /\ UNCHANGED notLifecycleVars
\* The scheduler runs every loop; a select with several ready cases picks
\* one at random, so ctx.Done() is not passed over for ever.
FairLifecycle ==
  /\ \A l \in Loops : SF_vars(LoopReturns(l) /\ UNCHANGED notLifecycleVars)
  /\ \A l \in Loops : WF_vars(LoopIterates(l) /\ UNCHANGED notLifecycleVars)
  /\ WF_vars(RetryWaitEnds /\ UNCHANGED notLifecycleVars)
SpecLifecycle == InitSpecLifecycle /\ [][NextLifecycle]_vars /\ FairLifecycle

InitSpecCollector ==
  /\ InitCollector /\ IngestorIdle /\ PipelineIdle /\ PredictorIdle /\ InitEvaluator
  /\ AnnouncerIdle /\ LifecycleIdle /\ GoalieIdle
notCollectorVars ==
  <<ingestorVars, pipelineVars, predictorVars, evaluatorVars, announcerVars, lifecycleVars,
    goalieVars>>
NextCollector ==
  \/ UpstreamGamePlayed /\ UNCHANGED notCollectorVars
  \/ CollectorRun /\ UNCHANGED notCollectorVars
  \/ GameLogExpires /\ UNCHANGED notCollectorVars
  \/ StandingsExpire /\ UNCHANGED notCollectorVars
SpecCollector == InitSpecCollector /\ [][NextCollector]_vars

InitSpecGoalie ==
  /\ InitGoalie /\ IngestorIdle /\ PipelineIdle /\ PredictorIdle /\ InitEvaluator
  /\ AnnouncerIdle /\ LifecycleIdle /\ InitCollector
notGoalieVars ==
  <<ingestorVars, pipelineVars, predictorVars, evaluatorVars, announcerVars, lifecycleVars,
    collectorVars>>
NextGoalie ==
  \/ ApplyOpposingStarter /\ UNCHANGED notGoalieVars
SpecGoalie == InitSpecGoalie /\ [][NextGoalie]_vars

(***************************************************************************)
(* Claims about the ingestor.                                              *)
(***************************************************************************)
EventsFor(pr) ==
  {i \in DOMAIN goalsStream :
     <<goalsStream[i].gameID, goalsStream[i].goalsToDate>> = pr}

\* C1: each (game id, goals-to-date) pair has at most one goal event on
\* ovechkin:goals, across poll ticks and restarts: MarkGoalSeen answers
\* alreadySeen=false to the first call for a pair and true to every later
\* one, and an event exists only for a pair it answered false for.
C1_AtMostOneEventPerGoal ==
  \A pr \in Pairs :
    /\ Cardinality(EventsFor(pr)) <= 1
    /\ markReturn[pr] # "bad"
    /\ EventsFor(pr) # {} => markReturn[pr] \in {"first", "dup"}

\* C1's case: a pair was marked, marked again (answered true) and has its
\* one event on the stream.
C1_Witness ==
  \E pr \in Pairs : markReturn[pr] = "dup" /\ Cardinality(EventsFor(pr)) = 1

C18_FailedAppendIsRetried ==
  [][\A p \in Ingestors :
       (/\ ipc[p] = "mark"
        /\ ipc'[p] # "mark" \/ todo'[p] # todo[p]
        /\ IsSubjectGoal(Head(todo[p]))
        /\ LET pr == <<caps[p], Head(todo[p]).goalsToDate>>
           IN  /\ EventsFor(pr) = {}
               /\ \A q \in Ingestors : <<evt[q].gameID, evt[q].goalsToDate>> # pr
               /\ markReturn'[pr] # markReturn[pr])
       => ipc'[p] = "emit"]_vars

\* C19 as stated: after a tick with no live game and a successful CareerGoals
\* fetch, the local career total equals the fetched total, whether it was
\* below or above it before.
C19_LocalEqualsAuthoritative ==
  \A p \in Ingestors :
    reconciled[p] # NoRec => lastKnownCareerTotal[p] = reconciled[p].fetched

\* C19 amended: after such a tick the local career total is the larger of its
\* value before the tick and the fetched total: raised to the fetched total
\* when it was below, left as it was when it was above.
C19_LocalIsRaisedToAuthoritative ==
  \A p \in Ingestors :
    reconciled[p] # NoRec =>
      lastKnownCareerTotal[p] =
        IF reconciled[p].fetched > reconciled[p].before
          THEN reconciled[p].fetched ELSE reconciled[p].before

\* C19's case: a tick without a live game has met a local total that missed
\* a goal and has raised it to the fetched total.
C19_Witness ==
  \E p \in Ingestors :
    /\ reconciled[p].before >= CareerStart
    /\ reconciled[p].fetched > reconciled[p].before
    /\ lastKnownCareerTotal[p] = reconciled[p].fetched

\* The processes that MarkGoalSeen has answered alreadySeen=false for the pair
\* and that have not yet called EmitGoalEvent for it.
AboutToEmit(pr) == {p \in Ingestors : <<evt[p].gameID, evt[p].goalsToDate>> = pr}

\* C26: with two ingestors against the same Redis, whatever the order of
\* their MarkGoalSeen and EmitGoalEvent steps for a pair, the calls that
\* have answered gave alreadySeen=false exactly once, and the events for
\* the pair, on the stream or about to be appended, number at most one.
C26_OneProcessEmits ==
  Cardinality(active) >= 2 =>
    \A pr \in Pairs :
      /\ markReturn[pr] \in {"none", "first", "dup"}
      /\ Cardinality(AboutToEmit(pr)) + Cardinality(EventsFor(pr)) <= 1
      /\ AboutToEmit(pr) # {} => markReturn[pr] # "none"

\* C26's case: one process has been answered false and has not yet emitted
\* when the other is answered true for the same pair.
C26_Witness ==
  /\ active = Ingestors
  /\ \E pr \in Pairs :
       /\ AboutToEmit(pr) = {"i1"} /\ ipc["i1"] = "emit"
       /\ ipc["i2"] # "stopped"
       /\ markReturn[pr] = "dup"

\* C27: while a process runs its local career total never decreases; a new
\* goal is given the previous total plus one, which becomes the total; and
\* each event a process appends carries more Goals than its last one.
C27_LocalTotalIncreases ==
  [][\A p \in Ingestors :
       /\ (ipc[p] # "stopped" /\ ipc'[p] # "stopped")
            => lastKnownCareerTotal'[p] >= lastKnownCareerTotal[p]
       /\ (ipc[p] = "mark" /\ ipc'[p] = "emit")
            => /\ evt'[p].goals = lastKnownCareerTotal[p] + 1
               /\ lastKnownCareerTotal'[p] = lastKnownCareerTotal[p] + 1
       /\ (ipc[p] = "emit" /\ goalsStream' # goalsStream /\ evt'[p] # evt[p])
            => /\ goalsStream'[Len(goalsStream')].goals > lastEmitted[p]
               /\ goalsStream'[Len(goalsStream')].goals = lastKnownCareerTotal[p]]_vars

\* C27's case: one process has emitted two goals, counted from its own
\* total while the landing endpoint still reports the old one.
C27_Witness ==
  /\ Len(goalsStream) = 2
  /\ goalsStream[1].goals = CareerStart + 1
  /\ goalsStream[2].goals = CareerStart + 2
  /\ lastEmitted["i1"] = CareerStart + 2
  /\ apiCareer = CareerStart

(***************************************************************************)
(* Claims about the prediction pipeline (SpecPipeline).                    *)
(***************************************************************************)
AfterLogistic == stage \in {"logistic", "heuristic", "model", "market", "calibrated"}
AfterHeuristic == stage \in {"heuristic", "model", "market", "calibrated"}
AfterPredict == stage \in {"model", "market", "calibrated"}
AfterMarket == stage \in {"market", "calibrated"}

\* C3: every percentage of the pipeline lies in [15, 75]: the heuristic
\* output, the logistic output unless it is the sentinel -1, the blend
\* Predict returns, the market-blended value and the calibrated value handed
\* to WriteNextPrediction.
C3_PercentagesBounded ==
  /\ AfterLogistic => (logisticPct = -1 \/ logisticPct \in 15..75)
  /\ (AfterHeuristic /\ Len(inGameLog) > 0) => heuristicPct \in 15..75
  /\ AfterPredict => modelPct \in 15..75
  /\ AfterMarket => blendedPct \in 15..75
  /\ stage = "calibrated" => finalPct \in 15..75

\* A run in which every stage acts: the logistic model answered, the market
\* blend and the calibration scale both moved the value.
C3_Witness ==
  /\ stage = "calibrated"
  /\ logisticPct # -1 /\ heuristicPct # logisticPct
  /\ blendedPct # modelPct
  /\ finalPct # blendedPct

\* C9: Predict returns 45 for an empty game log, whatever the game, the
\* standings and the goalie's save percentage.
C9_EmptyLogGives45 ==
  (AfterPredict /\ Len(inGameLog) = 0) => modelPct = 45

C9_Witness ==
  /\ AfterPredict /\ Len(inGameLog) = 0
  /\ inStandings = ExtremeStandings /\ inGoalie > 0 /\ ~inGame.isHome

\* C10: LogisticPredict returns -1 for a game log of fewer than 50 entries,
\* and a value in [15, 75] for a log of at least 50 entries (which yields at
\* least 20 training samples).
C10_LogisticSentinelOrBounded ==
  AfterLogistic =>
    /\ Len(inGameLog) < 50 => logisticPct = -1
    /\ (Len(inGameLog) >= 50 /\ Len(inGameLog) - 6 >= 20) => logisticPct \in 15..75

\* A trained model that answers strictly inside the range.
C10_Witness ==
  /\ AfterLogistic /\ Len(inGameLog) >= 50
  /\ logisticPct > 15 /\ logisticPct < 75

\* The samples calibrationScale reads (the first 100 of the list), their
\* scored count and the sum of their pred_pct; an entry that does not
\* unmarshal counts for nothing.
ReadSamples == SubSeq(inCalibLog, 1, IF Len(inCalibLog) > 100 THEN 100 ELSE Len(inCalibLog))
ScoredCount == Cardinality({i \in 1..Len(ReadSamples) : ReadSamples[i].ok /\ ReadSamples[i].Scored = 1})
RECURSIVE PredPctSum(_)
PredPctSum(upTo) ==
  IF upTo = 0 THEN 0
  ELSE PredPctSum(upTo - 1) + (IF ReadSamples[upTo].ok THEN ReadSamples[upTo].PredPct ELSE 0)

\* scale = (scored count / n) / (mean of pred_pct/100), clamped to [0.8, 1.2],
\* as a comparison of cross products: n cancels, and a zero mean with a
\* positive scored count clamps to 1.2.
ScaleIsClampedQuotient ==
  LET a == 100 * ScoredCount
      b == PredPctSum(Len(ReadSamples))
  IN  IF 10 * a < 8 * b THEN scale = <<4, 5>>
      ELSE IF 10 * a > 12 * b THEN scale = <<6, 5>>
      ELSE scale[1] * b = a * scale[2]

\* C8 as stated: calibrationScale returns 1.0 when the log holds fewer than
\* 10 samples, and with 10 or more the clamped quotient of hit rate and mean
\* predicted probability.
C8_ScaleIsQuotientFromTenSamples ==
  stage = "calibrated" =>
    /\ Len(inCalibLog) < 10 => scale = <<1, 1>>
    /\ (Len(inCalibLog) >= 10 /\ (ScoredCount > 0 \/ PredPctSum(Len(ReadSamples)) > 0))
         => ScaleIsClampedQuotient

\* C8 (amended): calibrationScale returns 1.0 when the read of the log fails,
\* when the log holds fewer than 10 entries, or when the pred_pct of its
\* entries do not sum to more than 0; otherwise it returns the clamped
\* quotient of hit rate and mean predicted probability, so 10 well-formed
\* samples with hit rate 0.6 and mean prediction 0.5 give 1.2.
C8_ScaleIsQuotientWhenDefined ==
  stage = "calibrated" =>
    /\ (~calibReadOk \/ Len(inCalibLog) < 10 \/ PredPctSum(Len(ReadSamples)) <= 0)
         => scale = <<1, 1>>
    /\ (calibReadOk /\ Len(inCalibLog) >= 10 /\ PredPctSum(Len(ReadSamples)) > 0)
         => ScaleIsClampedQuotient
    /\ (calibReadOk /\ inCalibLog = MakeCalibLog(10, 50, 6, 0)) => scale = <<6, 5>>

\* Ten well-formed samples, six of them hits, predicted 50 each: scale 1.2,
\* and the value it is applied to moves.
C8_Witness ==
  /\ stage = "calibrated" /\ calibReadOk
  /\ inCalibLog = MakeCalibLog(10, 50, 6, 0)
  /\ scale = <<6, 5>>
  /\ finalPct > blendedPct

(***************************************************************************)
(* Claims about the predictor's reminder check.                            *)
(***************************************************************************)
RemindersFor(gameID) == {i \in DOMAIN remindersStream : remindersStream[i].GameID = gameID}

\* C2: once the reminder check has run twice for the game inside the
\* reminder window (AlreadySent answered and, where it answered "not sent",
\* Publish's entry was accepted by the stream), ovechkin:reminders holds
\* exactly one entry for the game and the reminder_sent marker exists.
C2_TwoChecksLeaveOneReminder ==
  checksRun >= 2 =>
    /\ Cardinality(RemindersFor(TheGame.gameID)) = 1
    /\ TheGame.gameID \in reminderSent

\* C11: once the game's reminder window has passed with the predictor
\* ticking every 10 minutes, exactly one reminder for the game is on
\* ovechkin:reminders: some tick inside the window published it and no
\* second one followed.
C11_ExactlyOneReminderPerWindow ==
  untilMin < reminderWindow => Cardinality(RemindersFor(TheGame.gameID)) = 1

\* C12: the reminders stream and the reminder_sent marker change only on a
\* tick whose time until the start is between 55 and 65 minutes inclusive.
C12_PublishOnlyInsideWindow ==
  [][(remindersStream' # remindersStream \/ reminderSent' # reminderSent)
       => (untilMin >= 55 /\ untilMin <= 65 /\ ppc = "remind")]_vars

\* A reminder was published on the tick exactly 55 minutes before the start.
C12_Witness ==
  /\ \E i \in DOMAIN remindersStream : remindersStream[i].ID = 55
  /\ TheGame.gameID \in reminderSent

(***************************************************************************)
(* Claims about the evaluator.                                             *)
(***************************************************************************)
SummariesFor(gameID) == {i \in DOMAIN postGameStream : postGameStream[i].GameID = gameID}
ReportedGames == {g \in CompletedIds : SummariesFor(g) # {}}

\* C5: ovechkin:post_game holds at most one summary for each completed
\* game, whatever steps of the runs failed, and the last-reported key names a
\* game only once that game's summary is on the stream.
C5_AtMostOneSummaryPerGame ==
  /\ \A g \in CompletedIds : Cardinality(SummariesFor(g)) <= 1
  /\ lastReportedGame # 0 => SummariesFor(lastReportedGame) # {}

\* C7: every game the evaluator has reported has a sample on the calibration
\* log (so the log is at least as long as the number of reported games), and
\* the log holds no more than 100 samples.
C7_ReportedGamesAreSampled ==
  /\ Len(calibrationLog) >= Cardinality(ReportedGames)
  /\ Len(calibrationLog) <= 10 * 10

\* C28: summaries are published in strictly increasing game-id order: a
\* summary is appended only for the last completed game and only if its id
\* is above the stored last-reported id and above every id already on the
\* stream, and the stored id never decreases.
C28_SummariesInIncreasingOrder ==
  [][/\ lastReportedGame' >= lastReportedGame
     /\ postGameStream' # postGameStream =>
          LET new == postGameStream'[Len(postGameStream')]
          IN  /\ new.GameID = lastCompleted
              /\ new.GameID > lastReportedGame
              /\ \A i \in DOMAIN postGameStream : postGameStream[i].GameID < new.GameID]_vars

(***************************************************************************)
(* Claims about the announcer.                                             *)
(***************************************************************************)
\* C4: no entry of a stream is lost on the way to the Discord post step.
\* The group delivers an entry once only (reads ask for ">"), so an entry
\* it has delivered is either in the batch of the iteration in progress or
\* was handed to the post step; and an entry whose post has not succeeded
\* stays on the pending list, from where it could be delivered again.
C4_DeliveredEntriesReachThePostStep ==
  \A id \in 1..lastDelivered :
    /\ id \in batch \/ id \in handed
    /\ id \in postedOk \/ id \in pendingIds

ParsedIds == {id \in batch : kinds[id] = "valid"}

\* C15: a read of ovechkin:reminders returns the id of every message read
\* and a payload only for the messages whose payload field is present and
\* parses: a malformed message yields its id and no payload.
C15_RemindersMalformedYieldsIdOnly ==
  (consumed = "ovechkin:reminders" /\ apc = "post") =>
    /\ batch = (lastDelivered - Cardinality(batch) + 1)..lastDelivered
    /\ Len(payloads) = Cardinality(ParsedIds)
    /\ \A i \in DOMAIN payloads : payloads[i].From \in ParsedIds

\* C16: a read of ovechkin:goals or ovechkin:post_game returns the id of
\* every message read and a payload only for the messages whose payload
\* field is present and parses; a malformed message is in the batch that is
\* acknowledged.
C16_MalformedYieldsIdOnly ==
  (consumed # "ovechkin:reminders" /\ apc = "post") =>
    /\ batch = (lastDelivered - Cardinality(batch) + 1)..lastDelivered
    /\ Len(payloads) = Cardinality(ParsedIds)
    /\ \A i \in DOMAIN payloads : payloads[i].From \in ParsedIds

\* A read of ovechkin:post_game returned one valid and one malformed message.
C16_Witness ==
  /\ consumed = "ovechkin:post_game" /\ apc = "post"
  /\ Cardinality(batch) = 2 /\ Len(payloads) = 1
  /\ \E id \in batch : kinds[id] = "invalid JSON"

\* The step that ends an iteration of a consumer loop: Ack has returned.
IterationCompletes == apc = "ack" /\ apc' = "read"

C13_FatalAtStartupOnly ==
  /\ startedUnreachable => exitStatus = "nonzero"
  /\ exitStatus = "nonzero" => lastStep = "none"
  /\ exitStatus = "zero" => signalled

\* C14: after SIGTERM or SIGINT the ingestor's and the announcer's loops all
\* stop and the process terminates, wherever the loops were when the signal
\* arrived.
C14_SignalTerminates ==
  (service \in {"ingestor", "announcer"} /\ signalled)
    ~> (exitStatus = "zero" /\ \A l \in Loops : loopAt[l] \in {"returned", "absent"})

\* The ingestor terminated after a signal that arrived during its 8-second
\* goalie wait.
C14_Witness ==
  /\ service = "ingestor" /\ signalAt["main"] = "retryWait"
  /\ exitStatus = "zero" /\ loopAt["main"] = "returned"


\* C17: once predictHeuristic has run, each factor it multiplied is inside its
\* documented range: opponent [0.75, 1.35], recent form [0.6, 1.4], subject
\* against the opponent [0.85, 1.15], opponent strength [0.92, 1.08], pace
\* [0.97, 1.03], goalie [0.88, 1.12], home 0.95 or 1.05, rest 0.92, 1.0 or 1.02.
C17_FactorsWithinRanges ==
  stage = "factors" =>
    /\ factors.oppFactor \in 750..1350
    /\ factors.recentFactor \in 600..1400
    /\ factors.oviVsOppFactor \in 850..1150
    /\ factors.pointStrengthFactor \in 920..1080
    /\ factors.paceFactor \in 970..1030
    /\ factors.goalieFactor \in 880..1120
    /\ factors.homeFactor \in {950, 1050}
    /\ factors.restFactor \in {920, Milli, 1020}


\* Whole days from the last game of the log to the game (restFactor's
\* daysBetween), for a log whose last date parses.
RestGap == inGame.startDay - inGameLog[Len(inGameLog)].GameDate.day
RestApplied == stage \in {"factors", "rest"}
RestDated == Len(inGameLog) > 0 /\ inGameLog[Len(inGameLog)].GameDate.valid

\* C20 as stated: restFactor is 0.92 for a gap of one day, 1.02 for a gap of
\* two days or more, and 1.0 for a gap of zero days, an empty log or an
\* unparseable last date.
C20_RestFactorSameDayNeutral ==
  RestApplied =>
    /\ ~RestDated => factors.restFactor = Milli
    /\ RestDated /\ RestGap = 1 => factors.restFactor = 920
    /\ RestDated /\ RestGap >= 2 => factors.restFactor = 1020
    /\ RestDated /\ RestGap = 0 => factors.restFactor = Milli

\* C20 amended: restFactor is 0.92 for a gap of one day or of zero days
\* (same day), 1.02 for a gap of two days or more, and 1.0 only for an empty
\* log or an unparseable last date.
C20_RestFactorByGap ==
  RestApplied =>
    /\ ~RestDated => factors.restFactor = Milli
    /\ RestDated /\ RestGap \in {0, 1} => factors.restFactor = 920
    /\ RestDated /\ RestGap >= 2 => factors.restFactor = 1020

\* C20's case: restFactor has run for a game on the day of the log's last
\* game and returned 0.92.
C20_Witness ==
  RestApplied /\ RestDated /\ RestGap = 0 /\ factors.restFactor = 920


\* C21 as stated: for a non-empty log, Predict returns the average of the
\* heuristic and the logistic percentage rounded to the nearest point and
\* clamped to [15, 75] when LogisticPredict returned a value, and the
\* heuristic percentage when it returned -1.
C21_PredictIsRoundedAverage ==
  (AfterPredict /\ Len(inGameLog) > 0) =>
    modelPct = IF logisticPct >= 0
                 THEN clampPct((heuristicPct + logisticPct + 1) \div 2)
                 ELSE heuristicPct

\* C21 amended: the average is the integer quotient (h + l) / 2, the half
\* point of an odd sum dropped, clamped to [15, 75]; the heuristic percentage
\* when LogisticPredict returned -1.
C21_PredictIsTruncatedAverage ==
  (AfterPredict /\ Len(inGameLog) > 0) =>
    modelPct = IF logisticPct >= 0
                 THEN clampPct((heuristicPct + logisticPct) \div 2)
                 ELSE heuristicPct

\* C21's case: Predict has blended a heuristic and a logistic percentage
\* whose sum is odd.
C21_Witness ==
  /\ AfterPredict /\ logisticPct >= 0
  /\ (heuristicPct + logisticPct) % 2 = 1
  /\ modelPct = (heuristicPct + logisticPct - 1) \div 2


\* The entries of a game log value.
LogEntries(log) == {log[i] : i \in DOMAIN log}

\* C22: the cached game log only grows across collector cycles: every write
\* of ovechkin:game_log keeps every entry the key held before it, also in a
\* cycle in which the fetch of one season fails.
C22_GameLogAppendOnly ==
  [][(cachedGameLog' # cachedGameLog /\ cachedGameLog' # <<>>)
       => LogEntries(cachedGameLog) \subseteq LogEntries(cachedGameLog')]_vars


\* Whether the depth-chart name resolved on the opponent's roster.
DepthChartResolved == goalieIn.scraped = "on roster" /\ goalieIn.rosterOk
BoxscoreRead == goalieIn.boxscore = "200"
Consulted(source) == \E i \in DOMAIN goalieOut.calls : goalieOut.calls[i] = source

\* C23 as stated: a depth-chart name that resolves on the roster is returned
\* without a boxscore request; otherwise the result is the boxscore's
\* goalie flagged as starter; and with no such goalie it is unknown.
C23_FlaggedStarterOrUnknown ==
  goalieOut # <<>> =>
    IF DepthChartResolved
      THEN goalieOut.PlayerID = DepthChartGoalie /\ ~Consulted("boxscore")
      ELSE /\ Consulted("boxscore")
           /\ goalieOut.PlayerID =
                IF BoxscoreRead THEN FirstStarter(goalieIn.goalies, 1) ELSE 0

\* C23 amended: as stated, but the boxscore's goalie is the first one flagged
\* as starter or, when none is flagged, the first goalie listed; the result
\* is unknown only when the boxscore is not read or lists no goalie.
C23_SourcesInOrder ==
  goalieOut # <<>> =>
    IF DepthChartResolved
      THEN goalieOut.PlayerID = DepthChartGoalie /\ ~Consulted("boxscore")
      ELSE /\ Consulted("boxscore")
           /\ goalieOut.PlayerID =
                IF ~BoxscoreRead THEN 0
                ELSE IF FirstStarter(goalieIn.goalies, 1) # 0
                  THEN FirstStarter(goalieIn.goalies, 1)
                ELSE IF Len(goalieIn.goalies) > 0 THEN goalieIn.goalies[1].PlayerID
                ELSE 0

\* C23's case: the roster cross-reference failed and the boxscore, which
\* flags no starter, gave its first goalie.
C23_Witness ==
  /\ goalieOut # <<>>
  /\ goalieIn.scraped = "not on roster" /\ BoxscoreRead
  /\ FirstStarter(goalieIn.goalies, 1) = 0
  /\ goalieOut.PlayerID = 32


\* A step that is one whole run() of the predictor up to the reminder check,
\* or one that returned early.
TickStep ==
  /\ ppc = "idle"
  /\ ppc' = "remind" \/ (ppc' = "idle" /\ untilMin' = untilMin - checkInterval)
HasGameAndLog(read) == read.game /\ read.log = "log"

C25_OddsApiGuardedAndCached ==
  (ppc = "remind" /\ tickRead.apiCalled)
    => /\ ~tickRead.hadCache
       /\ untilMin <= oddsFetchWindow
       /\ tickRead.apiKeySet
       /\ tickOdds # <<>> => oddsCache = tickOdds

\* C30: the game log is read at most twice in a tick, and a tick whose last
\* read found it missing, empty or unreadable returns without changing
\* next_prediction, the snapshot, the reminders stream or the sent markers.
C30_MissingLogWritesNothing ==
  [][TickStep
       => /\ tickRead'.game => tickRead'.logReads \in 1..2
          /\ (tickRead'.game /\ tickRead'.log # "log")
               => /\ ppc' = "idle"
                  /\ UNCHANGED <<nextPrediction, predictionSnapshot, remindersStream,
                                 reminderSent>>]_vars

\* C30's case: the log was still empty at the second read of a tick that
\* followed one which had written a prediction.
C30_Witness ==
  /\ ppc = "idle" /\ tickRead.game
  /\ tickRead.log = "empty" /\ tickRead.logReads = 2
  /\ nextPrediction # <<>>

====
